---- MODULE Spec2Model ----
(***************************************************************************)
(* Test-result normalisation and aggregation of playwright-bdd's email     *)
(* reporting: the live reporter (CustomEmailReporter: onBegin, onTestEnd,  *)
(* extractSteps, onEnd) and the static conversion script (flattenSuites,   *)
(* generateDetailedReport) that rebuilds the same report from the JSON     *)
(* document the test runner serialises; the delivery of the report by     *)
(* email (sendEmailReport, sendEmail) from onEnd, from the script and from *)
(* globalTeardown, after globalSetup has removed the old report; and the   *)
(* rendering of the email (generateTestMatrixRows,                         *)
(* generateUltimateEmailHTML, generateBasicEmailHTML, escapeHtml).         *)
(***************************************************************************)
EXTENDS Integers, Sequences, FiniteSets, TLC

VARIABLES
    phase,          \* lifecycle of the run: "idle", "running", "ending", "ended"
    declared,       \* suite.allTests() of the run: the declared tests
    allTests,       \* CustomEmailReporter.allTests
    executedTests,  \* CustomEmailReporter.executedTests
    suites,         \* CustomEmailReporter.suites
    console,        \* kinds of message written to the console so far
    attempts,       \* per test, the results of the attempts made so far
    current,        \* the test the runner is at (0 before the first test)
    liveReport,     \* reportData written by onEnd
    testResults,    \* content of test-results.json
    staticReport,   \* detailedReport written by generateDetailedReport
    detailedFile,   \* who wrote detailed-test-report.json last ("none": absent)
    transport,      \* whether the SMTP server accepts a mail: "up" or "down"
    sendMailCalls,  \* the calls of transporter.sendMail so far, in order
    script,         \* the generateDetailedReport process: pc, attempts, exitCode
    teardown,       \* the globalTeardown call: pc, attempts
    uncaught,       \* the handlers an exception has propagated out of
    emailInput,     \* the suites of the report handed to the email templates
    emailOutput,    \* what the templates computed from emailInput
    escapeCall,     \* a call of escapeHtml: its argument and what it returned
    flattenCall,    \* a call of flattenSuites: the suite (and the suite as it
                    \* was before the call) and what it returned
    stepsCall       \* a call of extractSteps: the steps and what it returned

\* the state of the run and of the two report writers
runVars == <<phase, declared, allTests, executedTests, suites, console, attempts,
             current, liveReport, testResults, staticReport>>

\* the state of the delivery
deliveryVars == <<detailedFile, transport, sendMailCalls, script, teardown, uncaught>>

\* the state of the rendering and of the calls of the single functions
renderVars == <<emailInput, emailOutput, escapeCall, flattenCall, stepsCall>>

vars == <<runVars, deliveryVars, renderVars>>

----------------------------------------------------------------------------
(* Bounds of the model *)

NumTests == 5

MaxEvents == 3

MaxRetries == 1

Tests == 1..NumTests

\* TestResult.duration, in milliseconds
Durations == {1, 2}

\* TestResult.status of the runner
Statuses == {"passed", "failed", "skipped", "timedOut", "interrupted"}

\* the statuses after which the runner retries a test
RetriedStatuses == {"failed", "timedOut"}

NoReport == [written |-> FALSE]

NoDoc == [written |-> FALSE]

\* a test-results.json that is not valid JSON
GarbledDoc == [written |-> TRUE, garbled |-> TRUE]

\* a test-results.json that is valid JSON without a suites list
NoSuitesDoc == [written |-> TRUE]

\* JSON.parse(rawData) returns
ParseOk(doc) == "garbled" \notin DOMAIN doc

\* the parsed document has a suites list
HasSuites(doc) == "suites" \in DOMAIN doc

----------------------------------------------------------------------------
(* Helpers standing for the array methods the code uses *)

RECURSIVE FoldLeft(_, _, _)
\* Array.prototype.forEach / reduce: a left fold in index order
FoldLeft(Op(_, _), acc, s) ==
    IF s = <<>> THEN acc ELSE FoldLeft(Op, Op(acc, Head(s)), Tail(s))

\* suites.reduce((acc, s) => acc + s.<field>, 0)
SumField(s, field) == FoldLeft(LAMBDA acc, e: acc + e[field], 0, s)

\* find taking the first suite whatever its file
FindByFile_AnyFile(s, fileName) == IF s = <<>> THEN 0 ELSE 1

\* Array.prototype.find by file: the index of the first match, 0 if none
FindByFile(s, fileName) ==
    IF \E i \in 1..Len(s): s[i].file = fileName
    THEN CHOOSE i \in 1..Len(s):
            /\ s[i].file = fileName
            /\ \A j \in 1..(i - 1): s[j].file # fileName
    ELSE 0

RECURSIVE SortedSeq(_)
\* the elements of a set of numbers in increasing order
SortedSeq(S) ==
    IF S = {} THEN <<>>
    ELSE LET m == CHOOSE x \in S: \A y \in S: x <= y
         IN <<m>> \o SortedSeq(S \ {m})

RECURSIVE LastSlash(_, _)
\* the position of the last "/" at or before position i, 0 if there is none
LastSlash(p, i) ==
    IF i = 0 THEN 0
    ELSE IF SubSeq(p, i, i) = "/" THEN i ELSE LastSlash(p, i - 1)

\* path.basename: what follows the last separator
Basename(p) == SubSeq(p, LastSlash(p, Len(p)) + 1, Len(p))

----------------------------------------------------------------------------
(* The test project: two spec files; the first declares one test at file   *)
(* level and the others inside a describe block, the second declares its   *)
(* tests at file level.                                                    *)

InFirstFile(t) == t % 2 = 1

\* suite.file of the serialised document (relative to the test directory)
RelFile(t) ==
    IF InFirstFile(t) THEN "features/Login.feature.spec.js"
    ELSE "features/RIPA-14860.feature.spec.js"

\* test.location.file (absolute)
LocationFile(t) == "/repo/.features-gen/" \o RelFile(t)

InDescribe(t) == InFirstFile(t) /\ t > 1

\* test.parent.title: the describe block, or the file suite's title
ParentTitle(t) ==
    IF InDescribe(t) THEN "Verify Login" ELSE Basename(RelFile(t))

TestTitle(t) == "scenario " \o ToString(t)

\* the TestCase handed to the reporter
TestCaseOf(t) ==
    [id |-> t, title |-> TestTitle(t), parentTitle |-> ParentTitle(t),
     file |-> LocationFile(t)]

----------------------------------------------------------------------------
(* Delivery: sendEmailReport and sendEmail.  An exception is a value: the  *)
(* field threw of what a call returns says whether the call threw.         *)

ScriptIdle == [pc |-> "idle", attempts |-> 0, exitCode |-> 0]

TeardownIdle == [pc |-> "idle", attempts |-> 0]

NoOutput == [rendered |-> FALSE]

NoCall == [returned |-> FALSE]

\* sendEmail(subject, emailBody): transporter.sendMail inside try/catch; the
\* catch logs and throws the error again
sendEmail(kind, smtp) ==
    [calls |-> << [kind |-> kind, sent |-> smtp = "up"] >>,
     threw |-> smtp # "up",
     logs |-> IF smtp = "up" THEN {"EMAIL SENT SUCCESSFULLY"}
              ELSE {"Failed to send email"}]

\* generateBasicEmailHTML(reportPath) throws: JSON.parse fails, or
\* jsonReport.suites.map is called on undefined
BasicEmailThrows(doc) == ~ParseOk(doc) \/ ~HasSuites(doc)

\* spec.tests?.every(test => test.results?.every(r => r.status === "passed"))
\*    ? "passed" : "failed"
BasicSpecStatus(spec) ==
    IF \A i \in 1..Len(spec.tests):
          \A k \in 1..Len(spec.tests[i].results):
             spec.tests[i].results[k].status = "passed"
    THEN "passed" ELSE "failed"

\* the testResults of generateBasicEmailHTML: for every top-level suite of
\* the document its own specs with their status, and the counts of them
generateBasicEmailHTML(doc) ==
    [i \in 1..Len(doc.suites) |->
        LET scenarios == [j \in 1..Len(doc.suites[i].specs) |->
                             [feature |-> doc.suites[i].specs[j].title,
                              status |-> BasicSpecStatus(doc.suites[i].specs[j])]]
            n(st) == Cardinality({j \in 1..Len(scenarios):
                                     scenarios[j].status = st})
        IN [feature |-> doc.suites[i].title,
            total |-> Len(scenarios),
            passed |-> n("passed"),
            failed |-> n("failed"),
            scenarios |-> scenarios]]

\* a test-results.json is one an earlier run left on disk
IsStale(doc) == "stale" \in DOMAIN doc

\* the file a basic email is built from: test-results.json of this run
\* ("json") or of an earlier one ("stale")
BasicSource(doc) == IF IsStale(doc) THEN "stale" ELSE "json"

\* sendEmailReport trying test-results.json before the detailed report
sendEmailReport_BasicFirst(detailed, doc, smtp) ==
    IF doc.written /\ ~BasicEmailThrows(doc)
    THEN LET r == sendEmail("basic", smtp)
         IN [calls |-> r.calls, threw |-> r.threw,
             logs |-> r.logs \cup
               {"Detailed report not found, using basic test-results.json"},
             source |-> BasicSource(doc)]
    ELSE IF detailed # "none"
    THEN LET r == sendEmail("ultimate", smtp)
         IN [calls |-> r.calls, threw |-> r.threw,
             logs |-> r.logs \cup {"Using detailed test report"},
             source |-> detailed]
    ELSE [calls |-> <<>>, threw |-> FALSE, logs |-> {"No test results found!"},
          source |-> "none"]

\* sendEmailReport(): the detailed report if it exists, else
\* test-results.json if it exists, else nothing is sent; source is the
\* writer of the file the email body is rendered from
sendEmailReport(detailed, doc, smtp) ==
    IF detailed # "none"
    THEN LET r == sendEmail("ultimate", smtp)
         IN [calls |-> r.calls, threw |-> r.threw,
             logs |-> r.logs \cup {"Using detailed test report"},
             source |-> detailed]
    ELSE IF doc.written
    THEN IF BasicEmailThrows(doc)
         THEN [calls |-> <<>>, threw |-> TRUE,
               logs |-> {"Detailed report not found, using basic test-results.json"},
               source |-> BasicSource(doc)]
         ELSE LET r == sendEmail("basic", smtp)
              IN [calls |-> r.calls, threw |-> r.threw,
                  logs |-> r.logs \cup
                    {"Detailed report not found, using basic test-results.json"},
                  source |-> BasicSource(doc)]
    ELSE [calls |-> <<>>, threw |-> FALSE, logs |-> {"No test results found!"},
          source |-> "none"]

\* the calls of sendMail a handler made in a call r of sendEmailReport,
\* marked with the handler and the source of the body; settled says that
\* the promise of sendMail has been resolved or rejected
CallsBy(by, r) ==
    [i \in 1..Len(r.calls) |->
        [by |-> by, kind |-> r.calls[i].kind, sent |-> r.calls[i].sent,
         source |-> r.source, settled |-> TRUE]]

\* a catch block that throws the error again
OnEndCatch_Rethrows(threw) == threw

\* onEnd: try { await sendEmailReport() } catch (error) { console.error(...) }
\* whether an exception leaves the handler
OnEndCatch(threw) == FALSE

----------------------------------------------------------------------------
(* Live mode: CustomEmailReporter *)

\* suite.allTests(): the declared tests in declaration order
DeclaredList(n) == SortedSeq(1..n)

\* onBegin: this.allTests after the forEach over suite.allTests()
onBeginAllTests(old, tests) ==
    FoldLeft(LAMBDA acc, t: acc \cup {TestCaseOf(t).id}, old, tests)

\* ReporterIsFlaky without the retry test: every passed attempt is flaky
ReporterIsFlaky_AnyPass(result) == result.status = "passed"

\* const isFlaky = result.retry > 0 && result.status === 'passed'
ReporterIsFlaky(result) == result.retry > 0 /\ result.status = "passed"

\* the SuiteResult created when no suite of the file exists yet
NewSuiteResult(suiteName, fileName) ==
    [suiteName |-> suiteName, file |-> fileName, tests |-> <<>>,
     passed |-> 0, failed |-> 0, skipped |-> 0, flaky |-> 0,
     interrupted |-> 0, total |-> 0, duration |-> 0]

\* "Determine test status": the status of the record and the counters
\* of the suite after the if-chain
DetermineStatus(suiteResult, result) ==
    IF result.status = "skipped"
    THEN [status |-> "skipped",
          suiteResult |-> [suiteResult EXCEPT !.skipped = @ + 1]]
    ELSE IF result.status = "interrupted"
    THEN [status |-> "interrupted",
          suiteResult |-> [suiteResult EXCEPT !.interrupted = @ + 1]]
    ELSE IF result.status = "timedOut"
    THEN [status |-> "timedOut",
          suiteResult |-> [suiteResult EXCEPT !.failed = @ + 1]]
    ELSE IF ReporterIsFlaky(result)
    THEN [status |-> "flaky",
          suiteResult |-> [suiteResult EXCEPT !.flaky = @ + 1, !.passed = @ + 1]]
    ELSE IF result.status = "passed"
    THEN [status |-> "passed",
          suiteResult |-> [suiteResult EXCEPT !.passed = @ + 1]]
    ELSE [status |-> "failed",
          suiteResult |-> [suiteResult EXCEPT !.failed = @ + 1]]

\* onTestEnd: this.suites after the call
onTestEndSuites(ss, test, result) ==
    LET suiteName == IF test.parentTitle # "" THEN test.parentTitle
                     ELSE "Unnamed Suite"
        fileName == test.file
        found == FindByFile(ss, fileName)
        ss1 == IF found = 0
               THEN Append(ss, NewSuiteResult(suiteName, fileName))
               ELSE ss
        idx == IF found = 0 THEN Len(ss1) ELSE found
        determined == DetermineStatus(ss1[idx], result)
        detailedResult ==
            [testId |-> test.id, title |-> test.title,
             file |-> Basename(fileName), status |-> determined.status,
             duration |-> result.duration, retries |-> result.retry,
             isFlaky |-> ReporterIsFlaky(result)]
    IN [ss1 EXCEPT ![idx] =
          [determined.suiteResult EXCEPT !.tests = Append(@, detailedResult),
                                         !.total = @ + 1,
                                         !.duration = @ + result.duration]]

\* onEndSummary counting the records instead of the distinct executed tests
onEndSummary_CountsRecords(all, executed, ss) ==
    [totalTests |-> Cardinality(all),
     executed |-> SumField(ss, "total"),
     passed |-> SumField(ss, "passed"),
     failed |-> SumField(ss, "failed"),
     skipped |-> SumField(ss, "skipped"),
     flaky |-> SumField(ss, "flaky"),
     interrupted |-> SumField(ss, "interrupted"),
     notRun |-> Cardinality(all) - SumField(ss, "total")]

\* onEnd: reportData.summary
onEndSummary(all, executed, ss) ==
    LET notRun == Cardinality(all) - Cardinality(executed)
    IN [totalTests |-> Cardinality(all),
        executed |-> Cardinality(executed),
        passed |-> SumField(ss, "passed"),
        failed |-> SumField(ss, "failed"),
        skipped |-> SumField(ss, "skipped"),
        flaky |-> SumField(ss, "flaky"),
        interrupted |-> SumField(ss, "interrupted"),
        notRun |-> notRun]

\* the number of test-completion notifications so far
Events == FoldLeft(LAMBDA acc, t: acc + Len(attempts[t]), 0, SortedSeq(Tests))

\* the runner starts the run: onBegin(config, suite)
OnBegin ==
    /\ phase = "idle"
    /\ \E n \in 0..NumTests:
          /\ declared' = DeclaredList(n)
          /\ allTests' = onBeginAllTests(allTests, DeclaredList(n))
    /\ console' = console \cup {"Starting test execution"}
    /\ phase' = "running"
    /\ UNCHANGED <<executedTests, suites, attempts, current, liveReport,
                   testResults, staticReport, deliveryVars, renderVars>>

\* one attempt of test t ends: the runner records it and calls onTestEnd
OnTestEnd(t, result) ==
    /\ executedTests' = executedTests \cup {TestCaseOf(t).id}
    /\ suites' = onTestEndSuites(suites, TestCaseOf(t), result)
    /\ attempts' = [attempts EXCEPT ![t] =
                       Append(@, [status |-> result.status,
                                  duration |-> result.duration])]
    /\ UNCHANGED <<phase, declared, allTests, console, liveReport,
                   testResults, staticReport, deliveryVars, renderVars>>

\* the first attempt of the next declared test (the runner takes the tests
\* in declaration order)
FirstAttempt ==
    /\ phase = "running"
    /\ Events < MaxEvents
    /\ \E i \in 1..Len(declared): declared[i] = current + 1
    /\ current' = current + 1
    /\ \E st \in Statuses, d \in Durations:
          OnTestEnd(current + 1, [status |-> st, retry |-> 0, duration |-> d])

\* a retry of the test whose last attempt failed
RetryAttempt ==
    /\ phase = "running"
    /\ Events < MaxEvents
    /\ current \in Tests
    /\ Len(attempts[current]) \in 1..MaxRetries
    /\ attempts[current][Len(attempts[current])].status \in RetriedStatuses
    /\ current' = current
    /\ \E st \in Statuses, d \in Durations:
          OnTestEnd(current, [status |-> st,
                              retry |-> Len(attempts[current]),
                              duration |-> d])

\* the run is over: onEnd(result) writes detailed-test-report.json and
\* sends the email report
OnEnd ==
    /\ phase = "running"
    /\ liveReport' = [written |-> TRUE,
                      summary |-> onEndSummary(allTests, executedTests, suites),
                      suites |-> suites]
    /\ detailedFile' = "live"
    /\ LET r == sendEmailReport("live", testResults, transport)
       IN /\ sendMailCalls' = sendMailCalls \o CallsBy("onEnd", r)
          /\ console' = console \cup {"Detailed test report saved", "Total"}
                            \cup r.logs
                            \cup (IF r.threw
                                  THEN {"Error sending email from custom reporter"}
                                  ELSE {"Email sent successfully from custom reporter"})
          /\ uncaught' = IF OnEndCatch(r.threw) THEN uncaught \cup {"onEnd"}
                         ELSE uncaught
    /\ phase' = "ended"
    /\ UNCHANGED <<declared, allTests, executedTests, suites, attempts,
                   current, testResults, staticReport, transport, script,
                   teardown, renderVars>>

RECURSIVE NotificationsFrom(_, _)
\* the onTestEnd notifications of a run whose attempts are att, in the order
\* the runner sends them, from test t on
NotificationsFrom(att, t) ==
    IF t > NumTests THEN <<>>
    ELSE [k \in 1..Len(att[t]) |->
             [test |-> TestCaseOf(t),
              result |-> [status |-> att[t][k].status, retry |-> k - 1,
                          duration |-> att[t][k].duration]]]
         \o NotificationsFrom(att, t + 1)

\* this.suites after a sequence of notifications: onTestEnd called on each
LiveFold(ns) ==
    FoldLeft(LAMBDA ss, n: onTestEndSuites(ss, n.test, n.result), <<>>, ns)

----------------------------------------------------------------------------
(* The serialised document (test-results.json) of the run *)

\* the tests the runner knows: the declared ones and any it ran
DocumentedTests ==
    {declared[i]: i \in 1..Len(declared)} \cup {t \in Tests: attempts[t] # <<>>}

\* PlaywrightSpec of one test: one test entry holding all its results
SpecOf(t) ==
    [title |-> TestTitle(t),
     tests |-> << [testId |-> t, results |-> attempts[t]] >>]

SpecsOf(S) == [i \in 1..Cardinality(S) |-> SpecOf(SortedSeq(S)[i])]

\* PlaywrightReport.suites: one suite per file, describe blocks nested
DocumentSuites ==
    << [title |-> "Login.feature.spec.js",
        file |-> "features/Login.feature.spec.js",
        specs |-> SpecsOf({t \in DocumentedTests:
                              InFirstFile(t) /\ ~InDescribe(t)}),
        suites |-> << [title |-> "Verify Login",
                       file |-> "features/Login.feature.spec.js",
                       specs |-> SpecsOf({t \in DocumentedTests: InDescribe(t)}),
                       suites |-> <<>>] >>],
       [title |-> "RIPA-14860.feature.spec.js",
        file |-> "features/RIPA-14860.feature.spec.js",
        specs |-> SpecsOf({t \in DocumentedTests: ~InFirstFile(t)}),
        suites |-> <<>>] >>

\* the outcomes the test runner calls unexpected
UnexpectedStatuses == {"failed", "timedOut", "interrupted"}

\* PlaywrightReport.stats: unexpected is the number of tests whose final
\* attempt has an unexpected outcome
DocumentStats ==
    [unexpected |->
        Cardinality({t \in DocumentedTests:
                        /\ attempts[t] # <<>>
                        /\ attempts[t][Len(attempts[t])].status
                               \in UnexpectedStatuses})]

\* the parsed document has a stats block (stats?: of PlaywrightReport)
HasStats(doc) == "stats" \in DOMAIN doc

\* the JSON reporter writes test-results.json when the run has ended
WriteTestResults ==
    /\ phase = "ended"
    /\ ~HasSuites(testResults) \/ IsStale(testResults)
    /\ testResults' = [written |-> TRUE, suites |-> DocumentSuites,
                       stats |-> DocumentStats]
    /\ UNCHANGED <<phase, declared, allTests, executedTests, suites, console,
                   attempts, current, liveReport, staticReport, deliveryVars,
                   renderVars>>

----------------------------------------------------------------------------
(* Static mode: flattenSuites and generateDetailedReport *)

\* const isFlaky = test.results.length > 1 && lastResult.status === 'passed'
FlattenIsFlaky(test) ==
    Len(test.results) > 1 /\ test.results[Len(test.results)].status = "passed"

\* FlattenRetries counting the attempts instead of the retries
FlattenRetries_Attempts(test) == Len(test.results)

\* retries: test.results.length - 1
FlattenRetries(test) == Len(test.results) - 1

\* the record built from the first result instead of the last
FlattenRecord_FirstResult(spec, test, fileName, currentPath) ==
    LET firstResult == test.results[1]
        isFlaky == FlattenIsFlaky(test)
    IN [testId |-> test.testId,
        title |-> spec.title,
        file |-> fileName,
        suiteName |-> currentPath,
        status |-> IF isFlaky THEN "flaky" ELSE firstResult.status,
        duration |-> firstResult.duration,
        retries |-> FlattenRetries(test),
        isFlaky |-> isFlaky]

\* the record flattenSuites pushes for a test that has results
FlattenRecord(spec, test, fileName, currentPath) ==
    LET lastResult == test.results[Len(test.results)]
        isFlaky == FlattenIsFlaky(test)
    IN [testId |-> test.testId,
        title |-> spec.title,
        file |-> fileName,
        suiteName |-> currentPath,
        status |-> IF isFlaky THEN "flaky" ELSE lastResult.status,
        duration |-> lastResult.duration,
        retries |-> FlattenRetries(test),
        isFlaky |-> isFlaky]

RECURSIVE flattenSuites(_, _, _)
\* flattenSuites(suite, allTests, suitePath): the specs of the suite, then
\* its child suites; the path separator is written " > "
flattenSuites(suite, acc, suitePath) ==
    LET currentPath == IF suitePath # ""
                       THEN suitePath \o " > " \o suite.title
                       ELSE suite.title
        fileName == IF suite.file # "" THEN suite.file ELSE "unknown"
        ofSpecs ==
            FoldLeft(LAMBDA a, spec:
                        FoldLeft(LAMBDA b, test:
                                    IF Len(test.results) > 0
                                    THEN Append(b, FlattenRecord(spec, test,
                                                     fileName, currentPath))
                                    ELSE b,
                                 a, spec.tests),
                     acc, suite.specs)
    IN FoldLeft(LAMBDA a, childSuite: flattenSuites(childSuite, a, currentPath),
                ofSpecs, suite.suites)

\* the entry suiteMap.set creates for a file seen for the first time
NewSuiteEntry(test, key) ==
    [suiteName |-> IF test.suiteName # "" THEN test.suiteName ELSE Basename(key),
     file |-> key, tests |-> <<>>,
     passed |-> 0, failed |-> 0, skipped |-> 0, flaky |-> 0,
     interrupted |-> 0, total |-> 0, duration |-> 0]

\* the counter the if-chain of the grouping loop increments
CountRecord(suite, test) ==
    IF test.isFlaky THEN [suite EXCEPT !.flaky = @ + 1]
    ELSE IF test.status = "passed" THEN [suite EXCEPT !.passed = @ + 1]
    ELSE IF test.status = "failed" THEN [suite EXCEPT !.failed = @ + 1]
    ELSE IF test.status = "skipped" THEN [suite EXCEPT !.skipped = @ + 1]
    ELSE IF test.status = "interrupted" \/ test.status = "timedOut"
    THEN [suite EXCEPT !.interrupted = @ + 1]
    ELSE suite

\* one round of allTests.forEach: suiteMap (in insertion order) afterwards
GroupTest(suiteMap, test) ==
    LET key == IF test.file # "" THEN test.file ELSE "unknown"
        found == FindByFile(suiteMap, key)
        map1 == IF found = 0 THEN Append(suiteMap, NewSuiteEntry(test, key))
                ELSE suiteMap
        idx == IF found = 0 THEN Len(map1) ELSE found
        suite == [map1[idx] EXCEPT !.tests = Append(@, test),
                                   !.total = @ + 1,
                                   !.duration = @ + test.duration]
    IN [map1 EXCEPT ![idx] = CountRecord(suite, test)]

\* status: playwrightReport.stats?.unexpected === 0 ? 'passed' : 'failed'
\* (without a stats block the left side is undefined)
SummaryStatus(playwrightReport) ==
    IF HasStats(playwrightReport) /\ playwrightReport.stats.unexpected = 0
    THEN "passed" ELSE "failed"

\* "Calculate summary"
DetailedSummary(playwrightReport, flat, ss) ==
    [status |-> SummaryStatus(playwrightReport),
     totalTests |-> Len(flat),
     executed |-> Len(flat),
     passed |-> SumField(ss, "passed"),
     failed |-> SumField(ss, "failed"),
     skipped |-> SumField(ss, "skipped"),
     flaky |-> SumField(ss, "flaky"),
     interrupted |-> SumField(ss, "interrupted"),
     notRun |-> 0]

\* playwrightReport.suites; a document without the list has no suite to
\* visit
SuitesList(playwrightReport) ==
    IF HasSuites(playwrightReport) THEN playwrightReport.suites ELSE <<>>

\* detailedReport computed from a parsed test-results.json
DetailedReportOf(playwrightReport) ==
    LET flat == FoldLeft(LAMBDA a, suite: flattenSuites(suite, a, ""),
                         <<>>, SuitesList(playwrightReport))
        ss == FoldLeft(GroupTest, <<>>, flat)
    IN [written |-> TRUE, summary |-> DetailedSummary(playwrightReport, flat, ss),
        suites |-> ss]

\* process.exit(1) of the catch block replaced by a normal end
ScriptExitCode_AlwaysZero(threw) == 0

\* the exit code of the script: the catch block of generateDetailedReport
\* calls process.exit(1); without an error the process ends normally
ScriptExitCode(threw) == IF threw THEN 1 ELSE 0

\* playwrightReport.suites.forEach with the test for the list left out
ScriptReads_AnyJson(doc) == ParseOk(doc)

\* the script gets past reading the document: JSON.parse(rawData) returns
\* and playwrightReport.suites.forEach has a list to work on
ScriptReads(doc) == ParseOk(doc) /\ HasSuites(doc)

\* generateDetailedReport from the point where test-results.json exists:
\* read and parse it, write detailed-test-report.json, send the email report
ScriptRun ==
    IF ~ScriptReads(testResults)
    THEN /\ script' = [script EXCEPT !.pc = "exited",
                                     !.exitCode = ScriptExitCode(TRUE)]
         /\ console' = console \cup {"Error generating report"}
         /\ UNCHANGED <<staticReport, detailedFile, sendMailCalls>>
    ELSE LET r == sendEmailReport("static", testResults, transport)
         IN /\ staticReport' = DetailedReportOf(testResults)
            /\ detailedFile' = "static"
            /\ sendMailCalls' = sendMailCalls \o CallsBy("script", r)
            /\ script' = [script EXCEPT !.pc = "exited",
                                        !.exitCode = ScriptExitCode(r.threw)]
            /\ console' = console \cup {"Loaded test-results.json",
                                        "Detailed test report saved"}
                              \cup r.logs
                              \cup (IF r.threw THEN {"Error generating report"}
                                    ELSE {"Email report sent successfully!"})

\* the conversion script, started when test-results.json is there: the
\* wait loop is not entered
GenerateDetailedReport ==
    /\ script.pc = "idle"
    /\ testResults.written
    /\ ScriptRun
    /\ UNCHANGED <<phase, declared, allTests, executedTests, suites,
                   attempts, current, liveReport, testResults, transport,
                   teardown, uncaught, renderVars>>

----------------------------------------------------------------------------
(* Email rendering: escapeHtml, generateTestMatrixRows and the grouping of *)
(* generateUltimateEmailHTML                                               *)

\* escapeHtml leaving the single quote as it is
EscapeChar_KeepsQuote(c) ==
    CASE c = "&" -> "&amp;"
      [] c = "<" -> "&lt;"
      [] c = ">" -> "&gt;"
      [] c = "\"" -> "&quot;"
      [] OTHER -> c

\* the replacement map of escapeHtml, applied to one character
EscapeChar(c) ==
    CASE c = "&" -> "&amp;"
      [] c = "<" -> "&lt;"
      [] c = ">" -> "&gt;"
      [] c = "\"" -> "&quot;"
      [] c = "'" -> "&#039;"
      [] OTHER -> c

RECURSIVE escapeHtml(_)
\* text.replace(/[&<>"']/g, m => map[m])
escapeHtml(text) ==
    IF text = "" THEN ""
    ELSE EscapeChar(SubSeq(text, 1, 1)) \o escapeHtml(SubSeq(text, 2, Len(text)))

Digits == {"0", "1", "2", "3", "4", "5", "6", "7", "8", "9"}

\* the character at position i, "" beyond the end
CharAt(s, i) == IF i \in 1..Len(s) THEN SubSeq(s, i, i) ELSE ""

RECURSIVE DigitsEnd(_, _)
\* \d+ is greedy: the last position of the run of digits that holds i
DigitsEnd(s, i) ==
    IF CharAt(s, i + 1) \in Digits THEN DigitsEnd(s, i + 1) ELSE i

RECURSIVE MatchFrom(_, _)
\* the leftmost match of /RIPA-\d+/ starting at position i or later, "" if
\* there is none (String.prototype.match returning null)
MatchFrom(s, i) ==
    IF i + 5 > Len(s) THEN ""
    ELSE IF SubSeq(s, i, i + 4) = "RIPA-" /\ CharAt(s, i + 5) \in Digits
         THEN SubSeq(s, i, DigitsEnd(s, i + 5))
         ELSE MatchFrom(s, i + 1)

\* const fileNameMatch = test.file.match(/RIPA-\d+/);
\* fileNameMatch ? fileNameMatch[0] : suite.suiteName || 'Unknown'
TestCaseIdOf(suite, test) ==
    LET fileNameMatch == MatchFrom(test.file, 1)
    IN IF fileNameMatch # "" THEN fileNameMatch
       ELSE IF suite.suiteName # "" THEN suite.suiteName ELSE "Unknown"

\* suites.forEach(suite => suite.tests.forEach(test => ...)): the pairs the
\* nested loops visit, in order
RECURSIVE PairsOf(_)
PairsOf(ss) ==
    IF ss = <<>> THEN <<>>
    ELSE [j \in 1..Len(Head(ss).tests) |->
             [suite |-> Head(ss), test |-> Head(ss).tests[j]]]
         \o PairsOf(Tail(ss))

\* testCaseMap.has(id): the index of the entry, 0 if absent
FindCase(map, id) ==
    IF \E i \in 1..Len(map): map[i].testCaseId = id
    THEN CHOOSE i \in 1..Len(map): map[i].testCaseId = id
    ELSE 0

\* the update without the test that keeps a failed group failed
UpdateOverall_LastWins(overall, status) ==
    IF status = "failed" THEN "failed"
    ELSE IF status = "skipped" THEN "skipped"
    ELSE overall

\* the update that never marks a group skipped
UpdateOverall_IgnoresSkipped(overall, status) ==
    IF status = "failed" THEN "failed" ELSE overall

\* if (test.status === 'failed') overallStatus = 'failed';
\* else if (test.status === 'skipped' && overallStatus !== 'failed') ... 'skipped'
UpdateOverall(overall, status) ==
    IF status = "failed" THEN "failed"
    ELSE IF status = "skipped" /\ overall # "failed" THEN "skipped"
    ELSE overall

\* the body of the grouping loop of generateTestMatrixRows
MatrixAddTest(map, pair) ==
    LET id == TestCaseIdOf(pair.suite, pair.test)
        m == IF FindCase(map, id) = 0
             THEN Append(map, [testCaseId |-> id, tests |-> <<>>,
                               totalDuration |-> 0, overallStatus |-> "passed"])
             ELSE map
        i == FindCase(m, id)
    IN [m EXCEPT
          ![i].tests = Append(@, pair.test),
          ![i].totalDuration = @ + pair.test.duration,
          ![i].overallStatus = UpdateOverall(@, pair.test.status)]

\* the testCaseMap of generateTestMatrixRows, in insertion order
MatrixTestCases(pairs) == FoldLeft(MatrixAddTest, <<>>, pairs)

\* the grouping that opens a group for every record
UltimateAddTest_GroupPerRecord(map, pair) ==
    Append(map, [testCaseId |-> TestCaseIdOf(pair.suite, pair.test),
                 tests |-> << pair.test >>,
                 overallStatus |-> UpdateOverall("passed", pair.test.status)])

\* the body of the grouping loop of generateUltimateEmailHTML
UltimateAddTest(map, pair) ==
    LET id == TestCaseIdOf(pair.suite, pair.test)
        m == IF FindCase(map, id) = 0
             THEN Append(map, [testCaseId |-> id, tests |-> <<>>,
                               overallStatus |-> "passed"])
             ELSE map
        i == FindCase(m, id)
    IN [m EXCEPT
          ![i].tests = Append(@, pair.test),
          ![i].overallStatus = UpdateOverall(@, pair.test.status)]

\* the testCaseMap of generateUltimateEmailHTML
UltimateTestCases(pairs) == FoldLeft(UltimateAddTest, <<>>, pairs)

\* testCase.tests.filter(t => t.status === status).length
CountScenarios(testCase, status) ==
    Cardinality({j \in 1..Len(testCase.tests): testCase.tests[j].status = status})

\* one row of the test matrix: the values the template interpolates (the
\* status before toUpperCase), and the records they are computed from
MatrixRow(testCase) ==
    [testCaseId |-> escapeHtml(testCase.testCaseId),
     overallStatus |-> testCase.overallStatus,
     totalScenarios |-> Len(testCase.tests),
     passedScenarios |-> CountScenarios(testCase, "passed"),
     failedScenarios |-> CountScenarios(testCase, "failed"),
     skippedScenarios |-> CountScenarios(testCase, "skipped"),
     totalDuration |-> testCase.totalDuration,
     tests |-> testCase.tests]

\* the rows array of generateTestMatrixRows: one row per test case, in the
\* order of the map
TestCaseRows(ss) ==
    LET cases == MatrixTestCases(PairsOf(ss))
    IN [i \in 1..Len(cases) |-> MatrixRow(cases[i])]

\* the row returned when the rows array is empty
NoTestsFound == [text |-> "No tests found"]

\* generateTestMatrixRows(suites): the rows the function returns, which are
\* the rows of the test cases, or the one row "No tests found"
generateTestMatrixRows(ss) ==
    IF Len(TestCaseRows(ss)) = 0 THEN << NoTestsFound >> ELSE TestCaseRows(ss)

----------------------------------------------------------------------------
(* The system *)

\* the reporter is constructed, no test has run, no file is on disk
RunInit ==
    /\ phase = "idle"
    /\ declared = <<>>
    /\ allTests = {}
    /\ executedTests = {}
    /\ suites = <<>>
    /\ console = {}
    /\ attempts = [t \in Tests |-> <<>>]
    /\ current = 0
    /\ liveReport = NoReport
    /\ testResults = NoDoc
    /\ staticReport = NoReport

\* neither the script nor globalTeardown has started, no mail was sent
DeliveryIdle ==
    /\ detailedFile = "none"
    /\ sendMailCalls = <<>>
    /\ script = ScriptIdle
    /\ teardown = TeardownIdle
    /\ uncaught = {}

\* no template and no escapeHtml call is under way
RenderIdle ==
    /\ emailInput = <<>>
    /\ emailOutput = NoOutput
    /\ flattenCall = NoCall
    /\ stepsCall = NoCall

EscapeIdle == escapeCall = [text |-> "", returned |-> FALSE]

Init ==
    /\ RunInit
    /\ DeliveryIdle
    /\ transport = "up"
    /\ RenderIdle
    /\ EscapeIdle

Next ==
    \/ OnBegin
    \/ FirstAttempt
    \/ RetryAttempt
    \/ OnEnd
    \/ WriteTestResults
    \/ GenerateDetailedReport

Spec == Init /\ [][Next]_vars

\* the same system, named apart for the properties that compare every
\* order of the records
SpecAggregation == Init /\ [][Next]_vars

\* a completion notified for a test that is not in the declared set
StrayTestEnd ==
    /\ phase = "running"
    /\ Events < MaxEvents
    /\ UNCHANGED current
    /\ \E t \in Tests, st \in Statuses, d \in Durations:
          /\ t = Len(declared) + 1
          /\ attempts[t] = <<>>
          /\ OnTestEnd(t, [status |-> st, retry |-> 0, duration |-> d])

NextAdapterViolation == Next \/ StrayTestEnd

\* the run when the adapter may notify tests it never declared
SpecAdapterViolation == Init /\ [][NextAdapterViolation]_vars

\* a reporter that serialises the run without the stats block, which
\* PlaywrightReport declares optional
WriteTestResultsNoStats ==
    /\ phase = "ended"
    /\ ~HasSuites(testResults) \/ IsStale(testResults)
    /\ testResults' = [written |-> TRUE, suites |-> DocumentSuites]
    /\ UNCHANGED <<phase, declared, allTests, executedTests, suites, console,
                   attempts, current, liveReport, staticReport, deliveryVars,
                   renderVars>>

NextDocuments == Next \/ WriteTestResultsNoStats

\* the run when test-results.json may come with or without stats
SpecDocuments == Init /\ [][NextDocuments]_vars

\* the figures of the summary table of generateUltimateEmailHTML
UltimateCounts(cases) ==
    LET n(st) == Cardinality({i \in 1..Len(cases): cases[i].overallStatus = st})
    IN [totalTestCases |-> Len(cases),
        passedTestCases |-> n("passed"),
        failedTestCases |-> n("failed"),
        skippedTestCases |-> n("skipped")]

----------------------------------------------------------------------------
(* The wait loops: the script waits for test-results.json, globalTeardown  *)
(* waits for detailed-test-report.json                                     *)

\* const maxAttempts = 10 of generateDetailedReport
ScriptMaxAttempts == 10

\* const maxAttempts = 20 of globalTeardown
TeardownMaxAttempts == 20

\* the loop test with <= in place of <
ScriptLoopCondition_OneMore(exists, n) == ~exists /\ n <= ScriptMaxAttempts

\* while (!fs.existsSync(testResultsPath) && attempts < maxAttempts)
ScriptLoopCondition(exists, n) == ~exists /\ n < ScriptMaxAttempts

\* while (!fs.existsSync(detailedReportPath) && attempts < maxAttempts)
TeardownLoopCondition(exists, n) == ~exists /\ n < TeardownMaxAttempts

\* the script process starts: let attempts = 0
ScriptStart ==
    /\ script.pc = "idle"
    /\ script' = [script EXCEPT !.pc = "waiting", !.attempts = 0]
    /\ UNCHANGED <<runVars, detailedFile, transport, sendMailCalls, teardown,
                   uncaught, renderVars>>

\* one turn of the loop: the file is not there, sleep 500 ms, attempts++
ScriptSleep ==
    /\ script.pc = "waiting"
    /\ ScriptLoopCondition(testResults.written, script.attempts)
    /\ script' = [script EXCEPT !.attempts = @ + 1]
    /\ console' = console \cup {"Waiting for test-results.json"}
    /\ UNCHANGED <<phase, declared, allTests, executedTests, suites, attempts,
                   current, liveReport, testResults, staticReport, detailedFile,
                   transport, sendMailCalls, teardown, uncaught, renderVars>>

\* the loop is left and the file is still not there: process.exit(0)
ScriptGiveUp ==
    /\ script.pc = "waiting"
    /\ ~ScriptLoopCondition(testResults.written, script.attempts)
    /\ ~testResults.written
    /\ script' = [script EXCEPT !.pc = "exited", !.exitCode = 0]
    /\ console' = console \cup {"test-results.json not found after waiting!"}
    /\ UNCHANGED <<phase, declared, allTests, executedTests, suites, attempts,
                   current, liveReport, testResults, staticReport, detailedFile,
                   transport, sendMailCalls, teardown, uncaught, renderVars>>

\* the loop is left and the file is there: the rest of the script
ScriptConvert ==
    /\ script.pc = "waiting"
    /\ ~ScriptLoopCondition(testResults.written, script.attempts)
    /\ testResults.written
    /\ ScriptRun
    /\ UNCHANGED <<phase, declared, allTests, executedTests, suites,
                   attempts, current, liveReport, testResults, transport,
                   teardown, uncaught, renderVars>>

\* a catch block of globalTeardown that throws the error again
TeardownCatch_Rethrows(threw) == threw

\* globalTeardown: catch (error) { console.error(...); } and no throw:
\* whether an exception leaves the function
TeardownCatch(threw) == FALSE

\* the runner calls globalTeardown once the tests are over
TeardownStart ==
    /\ teardown.pc = "idle"
    /\ phase # "idle"
    /\ teardown' = [teardown EXCEPT !.pc = "waiting", !.attempts = 0]
    /\ console' = console \cup {"Waiting for custom reporter to generate detailed report"}
    /\ UNCHANGED <<phase, declared, allTests, executedTests, suites, attempts,
                   current, liveReport, testResults, staticReport, detailedFile,
                   transport, sendMailCalls, script, uncaught, renderVars>>

\* one turn of the loop of globalTeardown
TeardownSleep ==
    /\ teardown.pc = "waiting"
    /\ TeardownLoopCondition(detailedFile # "none", teardown.attempts)
    /\ teardown' = [teardown EXCEPT !.attempts = @ + 1]
    /\ UNCHANGED <<runVars, detailedFile, transport, sendMailCalls, script,
                   uncaught, renderVars>>

\* the loop is left: warn if the file is not there, send the email report
TeardownDeliver ==
    /\ teardown.pc = "waiting"
    /\ ~TeardownLoopCondition(detailedFile # "none", teardown.attempts)
    /\ LET r == sendEmailReport(detailedFile, testResults, transport)
       IN /\ sendMailCalls' = sendMailCalls \o CallsBy("globalTeardown", r)
          /\ console' = console
                \cup (IF detailedFile = "none"
                      THEN {"detailed-test-report.json not found after waiting"}
                      ELSE {"Detailed report found!"})
                \cup r.logs
                \cup (IF r.threw THEN {"Error during global teardown"}
                      ELSE {"Global teardown completed successfully"})
          /\ uncaught' = IF TeardownCatch(r.threw)
                         THEN uncaught \cup {"globalTeardown"} ELSE uncaught
    /\ teardown' = [teardown EXCEPT !.pc = "done"]
    /\ UNCHANGED <<phase, declared, allTests, executedTests, suites, attempts,
                   current, liveReport, testResults, staticReport, detailedFile,
                   transport, script, renderVars>>

\* the outcomes of the one test that the run of the delivery made
DeliveryRunStatuses == {"passed", "failed"}

\* the tests of a run are over: two tests were declared and the first one
\* ran; test-results.json is absent or is what an earlier run or a cut-off
\* write left; the SMTP server accepts mail or not
DeliveryInit ==
    /\ phase = "running"
    /\ declared = DeclaredList(2)
    /\ allTests = onBeginAllTests({}, DeclaredList(2))
    /\ executedTests = {TestCaseOf(1).id}
    /\ \E st \in DeliveryRunStatuses:
          attempts = [t \in Tests |->
                        IF t = 1 THEN << [status |-> st, duration |-> 1] >>
                        ELSE <<>>]
    /\ suites = LiveFold(NotificationsFrom(attempts, 1))
    /\ console = {"Starting test execution"}
    /\ current = 1
    /\ liveReport = NoReport
    /\ testResults \in {NoDoc, GarbledDoc, NoSuitesDoc}
    /\ staticReport = NoReport
    /\ DeliveryIdle
    /\ transport \in {"up", "down"}
    /\ RenderIdle
    /\ EscapeIdle

NextDelivery ==
    \/ OnEnd
    \/ WriteTestResults
    \/ ScriptStart
    \/ ScriptSleep
    \/ ScriptGiveUp
    \/ ScriptConvert
    \/ TeardownStart
    \/ TeardownSleep
    \/ TeardownDeliver

SpecDelivery == DeliveryInit /\ [][NextDelivery]_vars

\* the timer of a sleep fires: a loop that can take its next turn takes it
SpecDeliveryFair ==
    /\ SpecDelivery
    /\ WF_vars(ScriptSleep)
    /\ WF_vars(TeardownSleep)

----------------------------------------------------------------------------
(* The pipeline at the grain of its awaits: globalSetup before the run,    *)
(* then onEnd, the script and globalTeardown, each cut where it awaits the *)
(* promise of transporter.sendMail, which settles in a step of its own.    *)

\* the single test of the run that wrote the stale test-results.json
StaleSpec ==
    [title |-> "scenario 1",
     tests |-> << [testId |-> 1,
                   results |-> << [status |-> "failed", duration |-> 1] >>] >>]

\* a test-results.json an earlier run left on disk
StaleDoc ==
    [written |-> TRUE, stale |-> TRUE,
     suites |-> << [title |-> "Login.feature.spec.js",
                    file |-> "features/Login.feature.spec.js",
                    specs |-> << StaleSpec >>, suites |-> <<>>] >>,
     stats |-> [unexpected |-> 1]]

\* the continuation that does not wait for the promise
AwaitReady_NoAwait(settled) == TRUE

\* await sendEmailReport() / await sendEmail() / await sendMail(): the
\* continuation runs once the promise has settled
AwaitReady(settled) == settled

\* the calls of sendMail of a handler that have not settled
PendingOf(by) ==
    {i \in 1..Len(sendMailCalls):
        sendMailCalls[i].by = by /\ ~sendMailCalls[i].settled}

\* a call of sendMail of a handler was rejected
RejectedOf(by) ==
    \E i \in 1..Len(sendMailCalls):
        /\ sendMailCalls[i].by = by
        /\ sendMailCalls[i].settled
        /\ ~sendMailCalls[i].sent

\* the calls as they are while the promise is pending
Unsettled(calls) ==
    [i \in 1..Len(calls) |-> [calls[i] EXCEPT !.settled = FALSE, !.sent = FALSE]]

\* what sendEmail logs once sendMail has settled
SendOutcomeLogs == {"EMAIL SENT SUCCESSFULLY", "Failed to send email"}

\* globalSetup: delete detailed-test-report.json if it exists; the runner
\* calls it before any test starts
GlobalSetup ==
    /\ phase = "idle"
    /\ "Global setup completed" \notin console
    /\ detailedFile' = "none"
    /\ console' = console \cup {"Global setup completed"}
                      \cup (IF detailedFile # "none"
                            THEN {"Deleted old detailed-test-report.json"}
                            ELSE {})
    /\ UNCHANGED <<phase, declared, allTests, executedTests, suites, attempts,
                   current, liveReport, testResults, staticReport, transport,
                   sendMailCalls, script, teardown, uncaught, renderVars>>

\* onEnd up to its await: the report is written, sendEmailReport reads the
\* files as they are then and calls sendMail
OnEndBegin ==
    /\ phase = "running"
    /\ liveReport' = [written |-> TRUE,
                      summary |-> onEndSummary(allTests, executedTests, suites),
                      suites |-> suites]
    /\ detailedFile' = "live"
    /\ LET r == sendEmailReport(detailedFile', testResults, transport)
       IN /\ sendMailCalls' = sendMailCalls \o Unsettled(CallsBy("onEnd", r))
          /\ console' = console \cup {"Detailed test report saved", "Total"}
                            \cup (r.logs \ SendOutcomeLogs)
    /\ phase' = "ending"
    /\ UNCHANGED <<declared, allTests, executedTests, suites, attempts,
                   current, testResults, staticReport, transport, script,
                   teardown, uncaught, renderVars>>

\* the SMTP server answers a call of sendMail: the promise is resolved or
\* rejected and sendEmail logs the outcome
SendMailSettles ==
    \E i \in 1..Len(sendMailCalls):
        /\ ~sendMailCalls[i].settled
        /\ sendMailCalls' =
              [sendMailCalls EXCEPT ![i].settled = TRUE,
                                    ![i].sent = (transport = "up")]
        /\ console' = console \cup sendEmail(sendMailCalls[i].kind, transport).logs
        /\ UNCHANGED <<phase, declared, allTests, executedTests, suites,
                       attempts, current, liveReport, testResults, staticReport,
                       detailedFile, transport, script, teardown, uncaught,
                       renderVars>>

\* onEnd after its await: the try block ends or the catch block logs
OnEndResume ==
    /\ phase = "ending"
    /\ AwaitReady(PendingOf("onEnd") = {})
    /\ console' = console
          \cup (IF RejectedOf("onEnd")
                THEN {"Error sending email from custom reporter"}
                ELSE {"Email sent successfully from custom reporter"})
    /\ uncaught' = IF OnEndCatch(RejectedOf("onEnd")) THEN uncaught \cup {"onEnd"}
                   ELSE uncaught
    /\ phase' = "ended"
    /\ UNCHANGED <<declared, allTests, executedTests, suites, attempts,
                   current, liveReport, testResults, staticReport, detailedFile,
                   transport, sendMailCalls, script, teardown, renderVars>>

\* the script, started after the tests when test-results.json is there, up
\* to its await: a document it cannot read ends it; else the report is
\* written and sendEmailReport calls sendMail
ScriptBegin ==
    /\ script.pc = "idle"
    /\ phase # "idle"
    /\ testResults.written
    /\ IF ~ScriptReads(testResults)
       THEN /\ script' = [script EXCEPT !.pc = "exited",
                                        !.exitCode = ScriptExitCode(TRUE)]
            /\ console' = console \cup {"Error generating report"}
            /\ UNCHANGED <<staticReport, detailedFile, sendMailCalls>>
       ELSE /\ staticReport' = DetailedReportOf(testResults)
            /\ detailedFile' = "static"
            /\ LET r == sendEmailReport(detailedFile', testResults, transport)
               IN /\ sendMailCalls' =
                        sendMailCalls \o Unsettled(CallsBy("script", r))
                  /\ console' = console \cup {"Loaded test-results.json",
                                              "Detailed test report saved"}
                                    \cup (r.logs \ SendOutcomeLogs)
            /\ script' = [script EXCEPT !.pc = "sending"]
    /\ UNCHANGED <<phase, declared, allTests, executedTests, suites,
                   attempts, current, liveReport, testResults, transport,
                   teardown, uncaught, renderVars>>

\* the script after its await: the last log of the try block, or the catch
\* block and process.exit(1)
ScriptResume ==
    /\ script.pc = "sending"
    /\ AwaitReady(PendingOf("script") = {})
    /\ script' = [script EXCEPT !.pc = "exited",
                                !.exitCode = ScriptExitCode(RejectedOf("script"))]
    /\ console' = console
          \cup (IF RejectedOf("script") THEN {"Error generating report"}
                ELSE {"Email report sent successfully!"})
    /\ UNCHANGED <<phase, declared, allTests, executedTests, suites, attempts,
                   current, liveReport, testResults, staticReport, detailedFile,
                   transport, sendMailCalls, teardown, uncaught, renderVars>>

\* globalTeardown from the end of its loop up to its await; when
\* sendEmailReport returns or throws without a call of sendMail there is
\* nothing to wait for and the function ends
TeardownBegin ==
    /\ teardown.pc = "waiting"
    /\ ~TeardownLoopCondition(detailedFile # "none", teardown.attempts)
    /\ LET r == sendEmailReport(detailedFile, testResults, transport)
       IN /\ sendMailCalls' =
                sendMailCalls \o Unsettled(CallsBy("globalTeardown", r))
          /\ console' = console
                \cup (IF detailedFile = "none"
                      THEN {"detailed-test-report.json not found after waiting"}
                      ELSE {"Detailed report found!"})
                \cup (r.logs \ SendOutcomeLogs)
                \cup (IF r.calls # <<>> THEN {}
                      ELSE IF r.threw THEN {"Error during global teardown"}
                      ELSE {"Global teardown completed successfully"})
          /\ uncaught' = IF r.calls = <<>> /\ TeardownCatch(r.threw)
                         THEN uncaught \cup {"globalTeardown"} ELSE uncaught
          /\ teardown' = [teardown EXCEPT
                             !.pc = IF r.calls = <<>> THEN "done" ELSE "sending"]
    /\ UNCHANGED <<phase, declared, allTests, executedTests, suites, attempts,
                   current, liveReport, testResults, staticReport, detailedFile,
                   transport, script, renderVars>>

\* globalTeardown after its await
TeardownResume ==
    /\ teardown.pc = "sending"
    /\ AwaitReady(PendingOf("globalTeardown") = {})
    /\ console' = console
          \cup (IF RejectedOf("globalTeardown")
                THEN {"Error during global teardown"}
                ELSE {"Global teardown completed successfully"})
    /\ uncaught' = IF TeardownCatch(RejectedOf("globalTeardown"))
                   THEN uncaught \cup {"globalTeardown"} ELSE uncaught
    /\ teardown' = [teardown EXCEPT !.pc = "done"]
    /\ UNCHANGED <<phase, declared, allTests, executedTests, suites, attempts,
                   current, liveReport, testResults, staticReport, detailedFile,
                   transport, sendMailCalls, script, renderVars>>

\* before globalSetup: the project directory may hold the two files of an
\* earlier run; the SMTP server accepts mail or not
PipelineInit ==
    /\ phase = "idle"
    /\ declared = <<>>
    /\ allTests = {}
    /\ executedTests = {}
    /\ suites = <<>>
    /\ console = {}
    /\ attempts = [t \in Tests |-> <<>>]
    /\ current = 0
    /\ liveReport = NoReport
    /\ testResults \in {NoDoc, StaleDoc}
    /\ staticReport = NoReport
    /\ detailedFile \in {"none", "stale"}
    /\ sendMailCalls = <<>>
    /\ script = ScriptIdle
    /\ teardown = TeardownIdle
    /\ uncaught = {}
    /\ transport \in {"up", "down"}
    /\ RenderIdle
    /\ EscapeIdle

NextPipeline ==
    \/ GlobalSetup
    \/ OnBegin
    \/ OnEndBegin
    \/ OnEndResume
    \/ WriteTestResults
    \/ ScriptBegin
    \/ ScriptResume
    \/ TeardownStart
    \/ TeardownSleep
    \/ TeardownBegin
    \/ TeardownResume
    \/ SendMailSettles

SpecPipeline == PipelineInit /\ [][NextPipeline]_vars

----------------------------------------------------------------------------
(* The email templates applied to a report: the input is any report whose  *)
(* suites are those of the project's files, with at most MaxRecords        *)
(* records in all.                                                         *)

MaxRecords == 3

\* DetailedTestResult.status
RecordStatuses == Statuses \cup {"flaky"}

\* SuiteResult.suiteName: empty, or the describe block
SuiteNames == {"", "Verify Login"}

\* a SuiteResult of the report with the records of the given statuses
SuiteOf(file, name, sts) ==
    [suiteName |-> name, file |-> file,
     tests |-> [j \in 1..Len(sts) |->
                  [title |-> "scenario " \o ToString(j), file |-> file,
                   status |-> sts[j], duration |-> j]]]

\* the files of the project
Files == {RelFile(t): t \in Tests}

\* emailInput is the report of a run without tests, or a report of one
\* suite, or of one suite per file in either order, with at most MaxRecords
\* records in all
IsReport ==
    \E file1 \in Files, name1 \in SuiteNames, k \in 1..MaxRecords:
       \E sts1 \in [1..k -> RecordStatuses]:
          \/ emailInput = <<>>
          \/ emailInput = << SuiteOf(file1, name1, sts1) >>
          \/ \E file2 \in Files \ {file1}, name2 \in SuiteNames, m \in 1..(MaxRecords - k):
                \E sts2 \in [1..m -> RecordStatuses]:
                   emailInput = << SuiteOf(file1, name1, sts1),
                                   SuiteOf(file2, name2, sts2) >>

\* generateUltimateEmailHTML(report): its own grouping and summary figures,
\* and the matrix rows of generateTestMatrixRows(suites)
RenderEmail ==
    /\ ~emailOutput.rendered
    /\ LET ultimate == UltimateTestCases(PairsOf(emailInput))
       IN emailOutput' =
             [rendered |-> TRUE,
              ultimate |-> ultimate,
              counts |-> UltimateCounts(ultimate),
              rows |-> TestCaseRows(emailInput),
              matrix |-> generateTestMatrixRows(emailInput)]
    /\ UNCHANGED <<runVars, deliveryVars, emailInput, escapeCall, flattenCall,
                   stepsCall>>

\* sendEmailReport has read a detailed report and hands it to the template
EmailInit ==
    /\ RunInit
    /\ DeliveryIdle
    /\ transport = "up"
    /\ IsReport
    /\ emailOutput = NoOutput
    /\ EscapeIdle
    /\ flattenCall = NoCall
    /\ stepsCall = NoCall

NextEmail == RenderEmail

SpecEmail == EmailInit /\ [][NextEmail]_vars

----------------------------------------------------------------------------
(* escapeHtml applied to a text: any text of at most MaxLen characters of  *)
(* Alphabet, and the title of the script injection                         *)

MaxLen == 3

\* the five reserved characters, a letter and the character that ends an
\* entity
Alphabet == {"&", "<", ">", "\"", "'", "a", ";"}

ScriptTitle == "<script>&\"'</script>"

RECURSIVE Join(_)
\* the string of a sequence of characters
Join(cs) == IF cs = <<>> THEN "" ELSE Head(cs) \o Join(Tail(cs))

\* a template calls escapeHtml(text) and interpolates what it returns
EscapeText ==
    /\ ~escapeCall.returned
    /\ escapeCall' = [text |-> escapeCall.text, returned |-> TRUE,
                      result |-> escapeHtml(escapeCall.text)]
    /\ UNCHANGED <<runVars, deliveryVars, emailInput, emailOutput, flattenCall,
                   stepsCall>>

\* a template is about to escape a text
EscapeInit ==
    /\ RunInit
    /\ DeliveryIdle
    /\ transport = "up"
    /\ RenderIdle
    /\ \/ \E k \in 0..MaxLen: \E cs \in [1..k -> Alphabet]:
             escapeCall = [text |-> Join(cs), returned |-> FALSE]
       \/ escapeCall = [text |-> ScriptTitle, returned |-> FALSE]

NextEscape == EscapeText

SpecEscape == EscapeInit /\ [][NextEscape]_vars

----------------------------------------------------------------------------
(* flattenSuites applied to a suite tree: any tree of at most MaxNodes     *)
(* suites, each suite with one of the spec lists of SpecLists              *)

MaxNodes == 4

\* the results of one test: none; passed at once; failed then passed;
\* timed out then failed; failed at once
NoResults == <<>>

PassedAtOnce == << [status |-> "passed", duration |-> 1] >>

FailedThenPassedResults ==
    << [status |-> "failed", duration |-> 2], [status |-> "passed", duration |-> 1] >>

TimedOutThenFailed ==
    << [status |-> "timedOut", duration |-> 1], [status |-> "failed", duration |-> 2] >>

\* the spec lists a suite may hold: a spec is the list of its tests, a
\* test is the list of its results
SpecLists ==
    { <<>>,
      << <<PassedAtOnce>> >>,
      << <<FailedThenPassedResults>>, <<NoResults, TimedOutThenFailed>> >>,
      << <<NoResults>> >> }

RECURSIVE TreesWith(_)
RECURSIVE Forests(_)
\* the suite trees of exactly n suites, before titles and ids are given
TreesWith(n) ==
    {[specs |-> sp, suites |-> f]: sp \in SpecLists, f \in Forests(n - 1)}

\* the lists of trees that hold m suites in all
Forests(m) ==
    IF m = 0 THEN {<<>>}
    ELSE UNION {{<<t>> \o f: t \in TreesWith(k), f \in Forests(m - k)}:
                   k \in 1..m}

RECURSIVE Labelled(_, _, _)
\* the PlaywrightSuite of a tree: the k-th child of the suite named N is
\* named N.k, the j-th test of its i-th spec has the id N/i/j; the title of
\* a suite is its name, or is empty when the suite is anonymous (the root
\* and the first child of an anonymous suite, when anonymous is chosen)
Labelled(tree, name, anonymous) ==
    [title |-> IF anonymous THEN "" ELSE name,
     file |-> "features/Login.feature.spec.js",
     specs |-> [i \in 1..Len(tree.specs) |->
                  [title |-> name \o " spec " \o ToString(i),
                   tests |-> [j \in 1..Len(tree.specs[i]) |->
                                [testId |-> name \o "/" \o ToString(i)
                                                 \o "/" \o ToString(j),
                                 results |-> tree.specs[i][j]]]]],
     suites |-> [k \in 1..Len(tree.suites) |->
                   Labelled(tree.suites[k], name \o "." \o ToString(k),
                            anonymous /\ k = 1)]]

\* generateDetailedReport calls flattenSuites(suite, allTests) on a suite of
\* the document
FlattenSuite ==
    /\ ~flattenCall.returned
    /\ flattenCall' = [suite |-> flattenCall.suite,
                       before |-> flattenCall.before, returned |-> TRUE,
                       result |-> flattenSuites(flattenCall.suite, <<>>, "")]
    /\ UNCHANGED <<runVars, deliveryVars, emailInput, emailOutput, escapeCall,
                   stepsCall>>

\* the script has parsed a document and is about to flatten one of its
\* top-level suites
FlattenInit ==
    /\ RunInit
    /\ DeliveryIdle
    /\ transport = "up"
    /\ emailInput = <<>>
    /\ emailOutput = NoOutput
    /\ EscapeIdle
    /\ stepsCall = NoCall
    /\ \E n \in 1..MaxNodes: \E tree \in TreesWith(n): \E anonymous \in BOOLEAN:
          flattenCall = [suite |-> Labelled(tree, "s", anonymous),
                         before |-> Labelled(tree, "s", anonymous),
                         returned |-> FALSE]

NextFlatten == FlattenSuite

SpecFlatten == FlattenInit /\ [][NextFlatten]_vars

----------------------------------------------------------------------------
(* extractSteps applied to the steps of a result: any list of step trees   *)
(* of at most MaxSteps steps in all                                        *)

MaxSteps == 4

\* step.category
StepCategories == {"hook", "test.step"}

RECURSIVE StepForests(_)
\* the lists of step trees of m steps in all, before titles are given: a
\* step is its category and the list of its nested steps
StepForests(m) ==
    IF m = 0 THEN {<<>>}
    ELSE UNION {{<< [category |-> c, steps |-> inner] >> \o rest:
                    c \in StepCategories, inner \in StepForests(k - 1),
                    rest \in StepForests(m - k)}: k \in 1..m}

RECURSIVE TitledSteps(_, _)
\* the TestStep list of a list of trees: the k-th step of the list named N
\* is titled N.k and lasts k milliseconds
TitledSteps(forest, name) ==
    [k \in 1..Len(forest) |->
        [title |-> name \o "." \o ToString(k),
         category |-> forest[k].category,
         duration |-> k,
         steps |-> TitledSteps(forest[k].steps, name \o "." \o ToString(k))]]

RECURSIVE Repeat(_, _)
\* String.prototype.repeat
Repeat(str, n) == IF n = 0 THEN "" ELSE str \o Repeat(str, n - 1)

RECURSIVE processStep_SameDepth(_, _, _)
\* processStep handing its own depth to the nested steps
processStep_SameDepth(extractedSteps, step, depth) ==
    LET indent == Repeat("  ", depth)
        pushed == Append(extractedSteps,
                         [title |-> indent \o step.title,
                          category |-> step.category,
                          duration |-> step.duration])
    IN FoldLeft(LAMBDA acc, childStep: processStep_SameDepth(acc, childStep, depth),
                pushed, step.steps)

RECURSIVE processStep(_, _, _)
\* processStep(step, depth): push the entry of the step, then process the
\* nested steps one level deeper; extractedSteps is the list it pushes to
processStep(extractedSteps, step, depth) ==
    LET indent == Repeat("  ", depth)
        pushed == Append(extractedSteps,
                         [title |-> indent \o step.title,
                          category |-> step.category,
                          duration |-> step.duration])
    IN FoldLeft(LAMBDA acc, childStep: processStep(acc, childStep, depth + 1),
                pushed, step.steps)

\* extractSteps(steps): steps.forEach(step => processStep(step))
extractSteps(steps) ==
    FoldLeft(LAMBDA acc, step: processStep(acc, step, 0), <<>>, steps)

\* onTestEnd calls this.extractSteps(result.steps)
ExtractSteps ==
    /\ ~stepsCall.returned
    /\ stepsCall' = [steps |-> stepsCall.steps, returned |-> TRUE,
                     result |-> extractSteps(stepsCall.steps)]
    /\ UNCHANGED <<runVars, deliveryVars, emailInput, emailOutput, escapeCall,
                   flattenCall>>

\* onTestEnd is about to extract the steps of a result
StepsInit ==
    /\ RunInit
    /\ DeliveryIdle
    /\ transport = "up"
    /\ emailInput = <<>>
    /\ emailOutput = NoOutput
    /\ EscapeIdle
    /\ flattenCall = NoCall
    /\ \E m \in 0..MaxSteps: \E forest \in StepForests(m):
          stepsCall = [steps |-> TitledSteps(forest, "step"), returned |-> FALSE]

NextSteps == ExtractSteps

SpecSteps == StepsInit /\ [][NextSteps]_vars

----------------------------------------------------------------------------
(* Vocabulary of the properties *)

\* the number of records of a test list whose status is in S
CountStatus(tests, S) == Cardinality({i \in 1..Len(tests): tests[i].status \in S})

\* the positions <<suite, record>> of the records held by a list of suites
RecordsOf(ss) ==
    UNION {{<<i, j>>: j \in 1..Len(ss[i].tests)}: i \in 1..Len(ss)}

\* the attempt a live record stands for: its rank among the records of the
\* same test (onTestEnd pushes one record per notification, in order)
AttemptOf(ss, p) ==
    Cardinality({k \in 1..p[2]:
                    ss[p[1]].tests[k].testId = ss[p[1]].tests[p[2]].testId})

\* the attempts the runner has made of test t, and the last of them
AttemptCount(t) == Len(attempts[t])

LastAttempt(t) == attempts[t][Len(attempts[t])]

\* the tests of which at least one attempt has completed
RanTests == {t \in Tests: attempts[t] # <<>>}

\* the counters of a suite result
CountersOf(s) ==
    [passed |-> s.passed, failed |-> s.failed, skipped |-> s.skipped,
     flaky |-> s.flaky, interrupted |-> s.interrupted, total |-> s.total]

\* the status counters of a run summary
SummaryCounters(m) ==
    [passed |-> m.passed, failed |-> m.failed, skipped |-> m.skipped,
     flaky |-> m.flaky, interrupted |-> m.interrupted]

----------------------------------------------------------------------------
(* C1 *)

\* timedOut counts as failed and as nothing else in a list of suites
TimedOutCountsAsFailed(ss) ==
    \A i \in 1..Len(ss):
        /\ ss[i].failed = CountStatus(ss[i].tests, {"failed", "timedOut"})
        /\ ss[i].interrupted = CountStatus(ss[i].tests, {"interrupted"})

\* the record of a timedOut attempt keeps the status timedOut (live mode)
LiveKeepsTimedOut ==
    \A p \in RecordsOf(suites):
        LET r == suites[p[1]].tests[p[2]]
        IN attempts[r.testId][AttemptOf(suites, p)].status = "timedOut"
              => r.status = "timedOut"

\* the record of a test whose last attempt is timedOut keeps that status
\* (static mode)
StaticKeepsTimedOut ==
    staticReport.written =>
        \A p \in RecordsOf(staticReport.suites):
            LET r == staticReport.suites[p[1]].tests[p[2]]
            IN LastAttempt(r.testId).status = "timedOut" => r.status = "timedOut"

\* C1: a test whose last attempt is timedOut adds one to the failed counter
\* of its suite and to no other status counter, in live mode and in static
\* mode, and its record keeps the status timedOut.
C1_TimedOutCountsAsFailed ==
    /\ TimedOutCountsAsFailed(suites)
    /\ LiveKeepsTimedOut
    /\ StaticKeepsTimedOut
    /\ staticReport.written => TimedOutCountsAsFailed(staticReport.suites)

\* the live half of C1 alone
C1_LiveOnly ==
    /\ TimedOutCountsAsFailed(suites)
    /\ LiveKeepsTimedOut
    /\ StaticKeepsTimedOut

----------------------------------------------------------------------------
(* C2 *)

\* a test that passed on a retry
PassedOnRetry(t) == AttemptCount(t) > 1 /\ LastAttempt(t).status = "passed"

\* the records that a list of suites holds for test t; in live mode, where
\* every attempt has a record, those of its last attempt
LastRecords(ss, t, live) ==
    {p \in RecordsOf(ss):
        /\ ss[p[1]].tests[p[2]].testId = t
        /\ live => AttemptOf(ss, p) = AttemptCount(t)}

IsFlakyRecord(r, t) ==
    r.status = "flaky" /\ r.isFlaky = TRUE /\ r.retries = AttemptCount(t) - 1

\* C2: a test with N > 1 attempts whose last attempt passed has a record
\* with status flaky, flaky flag true and retries = N - 1: the record
\* onTestEnd pushes for the last attempt in live mode, the record of
\* flattenSuites in static mode.
C2_PassedOnRetryIsFlaky ==
    \A t \in Tests:
        PassedOnRetry(t) =>
            /\ LastRecords(suites, t, TRUE) # {}
            /\ \A p \in LastRecords(suites, t, TRUE):
                  IsFlakyRecord(suites[p[1]].tests[p[2]], t)
            /\ staticReport.written =>
                  /\ Cardinality(LastRecords(staticReport.suites, t, FALSE)) = 1
                  /\ \A p \in LastRecords(staticReport.suites, t, FALSE):
                        IsFlakyRecord(staticReport.suites[p[1]].tests[p[2]], t)

\* both reports exist for a run in which a test passed on its retry
C2_Witness ==
    /\ liveReport.written
    /\ staticReport.written
    /\ \E t \in Tests: PassedOnRetry(t)

----------------------------------------------------------------------------
(* C3 *)

\* flaky records are counted under flaky and under passed
FlakyCountsTowardPassed(ss) ==
    \A i \in 1..Len(ss):
        /\ ss[i].flaky = CountStatus(ss[i].tests, {"flaky"})
        /\ ss[i].passed = CountStatus(ss[i].tests, {"passed", "flaky"})

\* the run of one test, failed then passed
FailedThenPassed ==
    /\ RanTests = {1}
    /\ AttemptCount(1) = 2
    /\ attempts[1][1].status = "failed"
    /\ attempts[1][2].status = "passed"

\* C3: a record classified flaky adds one to flaky and one to passed of its
\* suite in both modes; the static input of one suite with one spec and the
\* attempts failed, passed gives passed = 1, flaky = 1, failed = 0, total = 1.
C3_FlakyCountsTowardPassed ==
    /\ FlakyCountsTowardPassed(suites)
    /\ staticReport.written =>
          /\ FlakyCountsTowardPassed(staticReport.suites)
          /\ FailedThenPassed =>
                /\ Len(staticReport.suites) = 1
                /\ CountersOf(staticReport.suites[1]) =
                      [passed |-> 1, failed |-> 0, skipped |-> 0, flaky |-> 1,
                       interrupted |-> 0, total |-> 1]

\* the live half of C3 alone
C3_LiveOnly == FlakyCountsTowardPassed(suites)

----------------------------------------------------------------------------
(* C4 *)

\* the two lists of suites cover the same files with the same counters
SameSuiteCounters(live, static) ==
    /\ {Basename(live[i].file): i \in 1..Len(live)} =
       {Basename(static[i].file): i \in 1..Len(static)}
    /\ \A i \in 1..Len(live), j \in 1..Len(static):
          Basename(live[i].file) = Basename(static[j].file)
             => CountersOf(live[i]) = CountersOf(static[j])

\* C4: for the same run, the report of the live reporter and the report of
\* the conversion script have the same counters per suite and the same
\* status counters in the run summary.
C4_LiveAndStaticAgree ==
    (liveReport.written /\ staticReport.written) =>
        /\ SameSuiteCounters(liveReport.suites, staticReport.suites)
        /\ SummaryCounters(liveReport.summary) = SummaryCounters(staticReport.summary)

----------------------------------------------------------------------------
(* C5 *)

\* C5: in live mode every executed test contributes exactly one record: the
\* number of records held by the suites, and the sum of their total
\* counters, is the number of distinct executed tests.
C5_OneRecordPerTest ==
    /\ Cardinality(RecordsOf(suites)) = Cardinality(RanTests)
    /\ SumField(suites, "total") = Cardinality(RanTests)

----------------------------------------------------------------------------
(* C6 *)

SuiteInvariants(ss) ==
    \A i \in 1..Len(ss):
        /\ ss[i].total = Len(ss[i].tests)
        /\ ss[i].duration = SumField(ss[i].tests, "duration")
        /\ ss[i].total = ss[i].passed + ss[i].failed + ss[i].skipped
                            + ss[i].interrupted
        /\ ss[i].flaky <= ss[i].passed

\* C6: after folding any sequence of records every suite result has total
\* = number of its records, duration = sum of their durations, total =
\* passed + failed + skipped + interrupted and flaky <= passed, in live
\* mode and in static mode.
C6_SuiteCounterInvariants ==
    /\ SuiteInvariants(suites)
    /\ staticReport.written => SuiteInvariants(staticReport.suites)

\* the live half of C6 alone
C6_LiveOnly == SuiteInvariants(suites)

----------------------------------------------------------------------------
(* C7 *)

\* what was classified, and how: the status of the attempt a record stands
\* for, whether it was a retry, and the status and flag of the record
LiveClassified ==
    {[last |-> attempts[suites[p[1]].tests[p[2]].testId][AttemptOf(suites, p)].status,
      multi |-> AttemptOf(suites, p) > 1,
      status |-> suites[p[1]].tests[p[2]].status,
      isFlaky |-> suites[p[1]].tests[p[2]].isFlaky] : p \in RecordsOf(suites)}

StaticClassified ==
    IF staticReport.written
    THEN {[last |-> LastAttempt(staticReport.suites[p[1]].tests[p[2]].testId).status,
           multi |-> AttemptCount(staticReport.suites[p[1]].tests[p[2]].testId) > 1,
           status |-> staticReport.suites[p[1]].tests[p[2]].status,
           isFlaky |-> staticReport.suites[p[1]].tests[p[2]].isFlaky] :
             p \in RecordsOf(staticReport.suites)}
    ELSE {}

Classified == LiveClassified \cup StaticClassified

\* C7: the classification of a record depends only on the status of the
\* last attempt and on whether there was more than one attempt; last
\* attempt skipped gives skipped, interrupted gives interrupted (flaky flag
\* false, however many attempts), timedOut is kept, a single passed attempt
\* gives passed with flaky false, passed after a retry gives flaky, and
\* last attempt failed gives failed; in both modes.
C7_ClassificationPrecedence ==
    /\ \A c \in Classified:
          /\ c.last = "skipped" => (c.status = "skipped" /\ c.isFlaky = FALSE)
          /\ c.last = "interrupted" =>
                (c.status = "interrupted" /\ c.isFlaky = FALSE)
          /\ c.last = "timedOut" => (c.status = "timedOut" /\ c.isFlaky = FALSE)
          /\ (c.last = "passed" /\ ~c.multi) =>
                (c.status = "passed" /\ c.isFlaky = FALSE)
          /\ (c.last = "passed" /\ c.multi) =>
                (c.status = "flaky" /\ c.isFlaky = TRUE)
          /\ c.last = "failed" => (c.status = "failed" /\ c.isFlaky = FALSE)
    /\ \A c1, c2 \in Classified:
          (c1.last = c2.last /\ c1.multi = c2.multi) =>
              (c1.status = c2.status /\ c1.isFlaky = c2.isFlaky)

\* both modes have classified a retry that ended skipped, and the static
\* mode a single passed attempt
C7_Witness ==
    /\ staticReport.written
    /\ \E c \in LiveClassified: c.last = "skipped" /\ c.multi
    /\ \E c \in StaticClassified: c.last = "skipped" /\ c.multi
    /\ \E c \in StaticClassified: c.last = "passed" /\ ~c.multi

----------------------------------------------------------------------------
(* C8 *)

\* C8: the summary written by onEnd has totalTests = number of tests
\* declared at onBegin, executed = number of distinct tests with at least
\* one completion, notRun = totalTests - executed; 5 declared and 3
\* executed give notRun = 2; no completion gives executed = 0, notRun =
\* totalTests and no suite.
C8_LiveSummaryCounts ==
    liveReport.written =>
        /\ liveReport.summary.totalTests = Len(declared)
        /\ liveReport.summary.executed = Cardinality(RanTests)
        /\ liveReport.summary.notRun = Len(declared) - Cardinality(RanTests)
        /\ (Len(declared) = 5 /\ Cardinality(RanTests) = 3) =>
              liveReport.summary.notRun = 2
        /\ RanTests = {} =>
              /\ liveReport.summary.executed = 0
              /\ liveReport.summary.notRun = liveReport.summary.totalTests
              /\ liveReport.suites = <<>>

\* the summary of a run of 5 declared tests, 3 of them executed, one retried
C8_Witness ==
    /\ liveReport.written
    /\ Len(declared) = 5
    /\ Cardinality(RanTests) = 3

\* the summary of a run without any completion
C8_WitnessNoCompletion ==
    /\ liveReport.written
    /\ Len(declared) > 0
    /\ RanTests = {}

----------------------------------------------------------------------------
(* C9 *)

\* C9: the notRun written in the summary is never negative; when more
\* tests completed than were declared the negative value is reported as a
\* diagnostic instead of being written silently.
C9_NegativeNotRunReported ==
    liveReport.written =>
        /\ liveReport.summary.notRun >= 0
        /\ Cardinality(RanTests) > Len(declared) =>
              "Negative not-run count" \in console

\* the first half of C9, which holds while only declared tests complete
C9_NotRunNonNegative == liveReport.written => liveReport.summary.notRun >= 0

----------------------------------------------------------------------------
(* C10 *)

RECURSIVE TestsOfSuite(_)
\* every test entry of a suite of the document, with or without results
TestsOfSuite(suite) ==
    FoldLeft(LAMBDA a, spec: a \o spec.tests, <<>>, suite.specs)
       \o FoldLeft(LAMBDA a, child: a \o TestsOfSuite(child), <<>>, suite.suites)

TestsOfDocument(doc) ==
    FoldLeft(LAMBDA a, suite: a \o TestsOfSuite(suite), <<>>, doc.suites)

\* C10: in static mode totalTests counts every test of the input document,
\* executed those with at least one result, and notRun = totalTests -
\* executed, so a test with an empty results list counts as not-run.
C10_StaticSummaryCounts ==
    staticReport.written =>
        LET tests == TestsOfDocument(testResults)
            withResults == {i \in 1..Len(tests): Len(tests[i].results) > 0}
        IN /\ staticReport.summary.totalTests = Len(tests)
           /\ staticReport.summary.executed = Cardinality(withResults)
           /\ staticReport.summary.notRun = Len(tests) - Cardinality(withResults)


----------------------------------------------------------------------------
(* C11 *)

\* the sequence s taken in the order given by the permutation p of its indices
Permute(s, p) == [i \in 1..Len(s) |-> s[p[i]]]

\* the final counters of every suite of a fold, whatever the suites' order
CountersByFile(ss) ==
    {[file |-> ss[i].file, passed |-> ss[i].passed, failed |-> ss[i].failed,
      skipped |-> ss[i].skipped, flaky |-> ss[i].flaky,
      interrupted |-> ss[i].interrupted, total |-> ss[i].total,
      duration |-> ss[i].duration]: i \in 1..Len(ss)}

\* the overall status of every test-case group, whatever the groups' order
OverallByCase(cases) ==
    {[testCaseId |-> cases[i].testCaseId,
      overallStatus |-> cases[i].overallStatus]: i \in 1..Len(cases)}

\* the records flattenSuites extracts from test-results.json
FlatRecords ==
    FoldLeft(LAMBDA a, suite: flattenSuites(suite, a, ""),
             <<>>, testResults.suites)

\* the live fold gives every suite the same counters in any order of the
\* notifications, and the counters the reporter holds are those
LiveOrderIndependent ==
    LET ns == NotificationsFrom(attempts, 1)
    IN \A p \in Permutations(1..Len(ns)):
          CountersByFile(LiveFold(Permute(ns, p))) = CountersByFile(suites)

\* the static fold gives every suite the same counters in any order of the
\* records, and the counters of the written report are those
StaticOrderIndependent ==
    staticReport.written =>
        \A p \in Permutations(1..Len(FlatRecords)):
            CountersByFile(FoldLeft(GroupTest, <<>>, Permute(FlatRecords, p)))
                = CountersByFile(staticReport.suites)

\* both groupings of the email give every test-case group of a report the
\* same overall status in any order of the records
EmailOrderIndependent(report) ==
    report.written =>
        LET pairs == PairsOf(report.suites)
        IN \A p \in Permutations(1..Len(pairs)):
              /\ OverallByCase(MatrixTestCases(Permute(pairs, p)))
                    = OverallByCase(MatrixTestCases(pairs))
              /\ OverallByCase(UltimateTestCases(Permute(pairs, p)))
                    = OverallByCase(UltimateTestCases(pairs))

\* C11: folding the same records into suite results in any order yields the
\* same counters (passed, failed, skipped, flaky, interrupted, total,
\* duration) for every suite, in the live and in the static fold, and the
\* email grouping yields the same overall status for every test-case group
C11_AggregationOrderIndependent ==
    /\ LiveOrderIndependent
    /\ StaticOrderIndependent
    /\ EmailOrderIndependent(liveReport)
    /\ EmailOrderIndependent(staticReport)

\* the statuses of the records of a test-case group, in order
StatusesOf(testCase) ==
    [j \in 1..Len(testCase.tests) |-> testCase.tests[j].status]

\* both reports are written, and in the live one a group holds a failed
\* record followed by a skipped one: the case where the order could matter
C11_Witness ==
    /\ liveReport.written
    /\ staticReport.written
    /\ Len(FlatRecords) >= 2
    /\ \E c \in {MatrixTestCases(PairsOf(liveReport.suites))[i]:
                    i \in 1..Len(MatrixTestCases(PairsOf(liveReport.suites)))}:
          \E j, k \in 1..Len(c.tests):
             j < k /\ c.tests[j].status = "failed" /\ c.tests[k].status = "skipped"

----------------------------------------------------------------------------
(* C12 *)

\* a sequence as the set of its elements
Range(s) == {s[i]: i \in 1..Len(s)}

\* the records of the rendered report, each with the key of its group
KeyedRecords ==
    {[id |-> TestCaseIdOf(q.suite, q.test), test |-> q.test]:
        q \in Range(PairsOf(emailInput))}

\* the records that the grouping puts under id
MembersOf(keyed, id) == {k.test: k \in {q \in keyed: q.id = id}}

\* failed if any member is failed, else skipped if any is skipped, else passed
DominantStatus(members) ==
    IF \E m \in members: m.status = "failed" THEN "failed"
    ELSE IF \E m \in members: m.status = "skipped" THEN "skipped"
    ELSE "passed"

\* every group of a grouping has the dominant status of its members
DominantIn(keyed, cases) ==
    /\ {c.testCaseId: c \in Range(cases)} = {k.id: k \in keyed}
    /\ \A c \in Range(cases):
          c.overallStatus = DominantStatus(MembersOf(keyed, c.testCaseId))

----------------------------------------------------------------------------
(* C13 *)

\* C13: in the email a timedOut record is treated as failed: the group that
\* holds it has overall status failed and its row counts it among the failed
\* scenarios
C13_TimedOutFailsTheGroup ==
    emailOutput.rendered =>
        \A row \in Range(emailOutput.rows):
            "timedOut" \in Range(StatusesOf(row)) =>
                /\ row.overallStatus = "failed"
                /\ row.failedScenarios =
                      Cardinality({j \in 1..Len(row.tests):
                                      row.tests[j].status \in {"failed", "timedOut"}})

\* a report with the single record of status timedOut is rendered
C13_SingleTimedOut ==
    /\ emailOutput.rendered
    /\ Len(emailOutput.rows) = 1
    /\ StatusesOf(emailOutput.rows[1]) = <<"timedOut">>

\* the row of a group whose single record timed out reads passed, 1 scenario,
\* 0 passed, 0 failed
C13_RenderedAsPassed ==
    C13_SingleTimedOut =>
        /\ emailOutput.rows[1].overallStatus = "passed"
        /\ emailOutput.rows[1].totalScenarios = 1
        /\ emailOutput.rows[1].passedScenarios = 0
        /\ emailOutput.rows[1].failedScenarios = 0

----------------------------------------------------------------------------
(* C14 *)

\* the key the fallback chain names: the suite name, else the case
\* identifier of the file path, else the title of the record
ChainKey(pair) ==
    IF pair.suite.suiteName # "" THEN pair.suite.suiteName
    ELSE IF MatchFrom(pair.test.file, 1) # "" THEN MatchFrom(pair.test.file, 1)
    ELSE pair.test.title

\* the records of a grouping, each with the test case id of its group
KeysOfRecords(cases) ==
    UNION {{<<c.testCaseId, t>>: t \in Range(c.tests)}: c \in Range(cases)}

\* C14: every record is grouped under the first non-empty of its suite name,
\* the case identifier in its file path, and its title
C14_SuiteNameFirst ==
    emailOutput.rendered =>
        \A pair \in Range(PairsOf(emailInput)):
            <<ChainKey(pair), pair.test>> \in KeysOfRecords(emailOutput.ultimate)

\* with an empty suite name the case identifier of the file path, when there
\* is one, is the key
C14_IdentifierWhenUnnamed ==
    emailOutput.rendered =>
        \A pair \in Range(PairsOf(emailInput)):
            ( /\ pair.suite.suiteName = ""
              /\ MatchFrom(pair.test.file, 1) # "" ) =>
                <<ChainKey(pair), pair.test>> \in KeysOfRecords(emailOutput.ultimate)

----------------------------------------------------------------------------
(* C15 *)

\* the loop of the script is over: the file exists or the 10 turns are
\* used up (or the process has gone on and ended)
ScriptLoopOver ==
    script.pc = "exited" \/ testResults.written \/ script.attempts = 10

\* the loop of globalTeardown is over
TeardownLoopOver ==
    teardown.pc = "done" \/ detailedFile # "none" \/ teardown.attempts = 20

\* C15: the script sleeps at most 10 times and globalTeardown at most 20
\* times, a loop sleeps only while its file does not exist, and each loop
\* comes to its end, whether the file appears or not
C15_WaitsAreBounded ==
    /\ [](script.attempts <= 10 /\ teardown.attempts <= 20)
    /\ [][script'.attempts > script.attempts => ~testResults.written]_vars
    /\ [][teardown'.attempts > teardown.attempts => detailedFile = "none"]_vars
    /\ (script.pc = "waiting") ~> ScriptLoopOver
    /\ (teardown.pc = "waiting") ~> TeardownLoopOver

\* the script has given up after its 10 sleeps and globalTeardown has left
\* its loop early because the file appeared
C15_Witness ==
    /\ script.pc = "exited"
    /\ script.attempts = 10
    /\ ~testResults.written
    /\ teardown.pc = "done"
    /\ teardown.attempts \in 1..19
    /\ detailedFile # "none"

----------------------------------------------------------------------------
(* C16 *)

\* the calls of sendMail made by a handler
CallsOf(by) == {c \in Range(sendMailCalls): c.by = by}

\* the step in which the script process ends
ScriptExits == script.pc # "exited" /\ script'.pc = "exited"

\* the document is there and reading it fails
MalformedInput == testResults.written /\ (~ParseOk(testResults) \/ ~HasSuites(testResults))

\* C16: when the script ends with test-results.json absent, it has waited
\* its 10 turns, the exit code is 0, detailed-test-report.json is not
\* written and sendMail is not called; when it ends on a failure of the
\* generation the exit code is not 0
C16_ExitContract ==
    [][ScriptExits =>
          /\ ~testResults.written =>
                /\ script.attempts = 10
                /\ script'.exitCode = 0
                /\ staticReport' = staticReport
                /\ detailedFile' = detailedFile
                /\ sendMailCalls' = sendMailCalls
          /\ MalformedInput => script'.exitCode # 0]_vars

\* the script has ended with exit code 0 after the wait, nothing written,
\* nothing sent
C16_Witness ==
    /\ script.pc = "exited"
    /\ script.exitCode = 0
    /\ script.attempts = 10
    /\ ~testResults.written
    /\ ~staticReport.written
    /\ CallsOf("script") = {}
    /\ "test-results.json not found after waiting!" \in console

----------------------------------------------------------------------------
(* C17 *)

\* reportData as onEnd computes it from the reporter's fields
ReportOnEndWrites ==
    [written |-> TRUE,
     summary |-> onEndSummary(allTests, executedTests, suites),
     suites |-> suites]

\* C17: no exception leaves onEnd or globalTeardown; after a sendMail that
\* was rejected the handler has logged the error and completed, and the
\* report written by onEnd is the one onEnd computed
C17_DeliveryFailureContained ==
    /\ uncaught \cap {"onEnd", "globalTeardown"} = {}
    /\ liveReport.written => liveReport = ReportOnEndWrites /\ detailedFile # "none"
    /\ \A c \in Range(sendMailCalls):
          ~c.sent =>
             /\ "Failed to send email" \in console
             /\ c.by = "onEnd" =>
                   /\ phase = "ended"
                   /\ liveReport.written
                   /\ "Error sending email from custom reporter" \in console
             /\ c.by = "globalTeardown" =>
                   /\ teardown.pc = "done"
                   /\ "Error during global teardown" \in console

\* sendMail was rejected in onEnd and in globalTeardown, and both completed
C17_Witness ==
    /\ \E c \in CallsOf("onEnd"): ~c.sent
    /\ \E c \in CallsOf("globalTeardown"): ~c.sent
    /\ phase = "ended"
    /\ teardown.pc = "done"
    /\ liveReport.written

----------------------------------------------------------------------------
(* C18 *)

\* C18: when sendMail is rejected in the script the error is logged, the
\* report the script wrote stays on disk and the exit code is 0
C18_DeliveryFailureNotFatal ==
    (\E c \in CallsOf("script"): ~c.sent) =>
        /\ "Failed to send email" \in console
        /\ staticReport.written
        /\ detailedFile # "none"
        /\ script.pc = "exited" => script.exitCode = 0

\* after a rejected sendMail the script has logged the error, its report is
\* on disk, and the process has ended with exit code 1
C18_ExitsWithOne ==
    (\E c \in CallsOf("script"): ~c.sent) =>
        /\ "Failed to send email" \in console
        /\ "Error generating report" \in console
        /\ staticReport.written
        /\ detailedFile # "none"
        /\ script.pc = "exited"
        /\ script.exitCode = 1

----------------------------------------------------------------------------
(* C19 *)

\* C19: when the script ends on a test-results.json that is not valid JSON
\* or has no suites list, it has logged the error, has not written
\* detailed-test-report.json and has not called sendMail
C19_MalformedInputAborts ==
    [][(ScriptExits /\ MalformedInput) =>
          /\ staticReport' = staticReport
          /\ detailedFile' = detailedFile
          /\ sendMailCalls' = sendMailCalls
          /\ "Error generating report" \in console']_vars

\* the script has ended on a document without a suites list: no report, no
\* call of sendMail
C19_Witness ==
    /\ script.pc = "exited"
    /\ script.exitCode = 1
    /\ testResults = NoSuitesDoc
    /\ ~staticReport.written
    /\ CallsOf("script") = {}

----------------------------------------------------------------------------
(* C20 *)

\* the five entities and the character each stands for
Entities ==
    {<<"&amp;", "&">>, <<"&lt;", "<">>, <<"&gt;", ">">>, <<"&quot;", "\"">>,
     <<"&#039;", "'">>}

\* the entity that begins at position i of s, <<>> if none does
EntityAt(s, i) ==
    LET found == {e \in Entities:
                     /\ i + Len(e[1]) - 1 <= Len(s)
                     /\ SubSeq(s, i, i + Len(e[1]) - 1) = e[1]}
    IN IF found = {} THEN <<>> ELSE CHOOSE e \in found: TRUE

RECURSIVE DecodeFrom(_, _)
\* s from position i on, read as markup: an entity gives its character, any
\* other character gives itself
DecodeFrom(s, i) ==
    IF i > Len(s) THEN ""
    ELSE IF EntityAt(s, i) # <<>>
         THEN EntityAt(s, i)[2] \o DecodeFrom(s, i + Len(EntityAt(s, i)[1]))
         ELSE SubSeq(s, i, i) \o DecodeFrom(s, i + 1)

\* C20: what escapeHtml returns holds no raw <, >, double or single quote,
\* every & in it begins one of the five entities, and read as markup it is
\* the argument again (every reserved character replaced by its own entity,
\* the other characters unchanged and in order); the title
\* <script>&"'</script> gives &lt;script&gt;&amp;&quot;&#039;&lt;/script&gt;
C20_EscapeHtmlReplacesReserved ==
    escapeCall.returned =>
        /\ \A i \in 1..Len(escapeCall.result):
              /\ SubSeq(escapeCall.result, i, i) \notin {"<", ">", "\"", "'"}
              /\ SubSeq(escapeCall.result, i, i) = "&"
                    => EntityAt(escapeCall.result, i) # <<>>
        /\ DecodeFrom(escapeCall.result, 1) = escapeCall.text
        /\ escapeCall.text = ScriptTitle =>
              escapeCall.result = "&lt;script&gt;&amp;&quot;&#039;&lt;/script&gt;"

\* escapeHtml has returned for the title of the script injection
C20_Witness ==
    /\ escapeCall.returned
    /\ escapeCall.text = ScriptTitle
    /\ escapeCall.result # escapeCall.text

----------------------------------------------------------------------------
(* C21 *)

\* the tests of a document whose last result is an unexpected outcome
UnexpectedIn(doc) ==
    LET tests == TestsOfDocument(doc)
    IN {i \in 1..Len(tests):
          /\ Len(tests[i].results) > 0
          /\ tests[i].results[Len(tests[i].results)].status \in UnexpectedStatuses}

\* every test of the document has results and its last result is passed
AllPassedIn(doc) ==
    LET tests == TestsOfDocument(doc)
    IN /\ tests # <<>>
       /\ \A i \in 1..Len(tests):
             /\ Len(tests[i].results) > 0
             /\ tests[i].results[Len(tests[i].results)].status = "passed"

\* C21: in static mode summary.status is passed if and only if the run has
\* no unexpected result, whether the document has a stats block or not; a
\* document in which every test passed yields passed.
C21_StatusPassedIffNoUnexpected ==
    staticReport.written =>
        /\ staticReport.summary.status = "passed"
              <=> UnexpectedIn(testResults) = {}
        /\ AllPassedIn(testResults) => staticReport.summary.status = "passed"

\* what the script does: with a stats block the status follows the
\* unexpected count, without one the status is failed whatever the tests did
C21_FailedWithoutStats ==
    staticReport.written =>
        /\ HasStats(testResults) =>
              (staticReport.summary.status = "passed"
                  <=> UnexpectedIn(testResults) = {})
        /\ ~HasStats(testResults) => staticReport.summary.status = "failed"

\* a document without stats in which every test passed was converted
C21_AllPassedNoStats ==
    /\ staticReport.written
    /\ ~HasStats(testResults)
    /\ AllPassedIn(testResults)
    /\ staticReport.summary.status = "failed"

----------------------------------------------------------------------------
(* C22 *)

\* the calls of sendMail a handler has made, pending or settled
IssuedBy(by) == {c \in Range(sendMailCalls): c.by = by}

\* C22: onEnd and the script call sendMail only once the detailed report
\* they compute is on disk, with the email rendered from that report; and
\* onEnd, the script and globalTeardown are not over while a call of
\* sendMail they made is pending.
C22_DeliveryAfterWriteAndAwaited ==
    /\ \A c \in IssuedBy("onEnd"):
          /\ liveReport.written
          /\ detailedFile # "none"
          /\ c.kind = "ultimate"
          /\ c.source = "live"
    /\ \A c \in IssuedBy("script"):
          /\ staticReport.written
          /\ detailedFile # "none"
          /\ c.kind = "ultimate"
          /\ c.source = "static"
    /\ phase = "ended" => PendingOf("onEnd") = {}
    /\ script.pc = "exited" => PendingOf("script") = {}
    /\ teardown.pc = "done" => PendingOf("globalTeardown") = {}

\* the three handlers are over, each after a call of sendMail that was
\* rejected
C22_Witness ==
    /\ phase = "ended"
    /\ script.pc = "exited"
    /\ teardown.pc = "done"
    /\ \A by \in {"onEnd", "script", "globalTeardown"}:
          \E c \in IssuedBy(by): c.settled /\ ~c.sent

----------------------------------------------------------------------------
(* C23 *)

\* the calls of sendMail a step adds
NewCalls ==
    {sendMailCalls'[i]: i \in (Len(sendMailCalls) + 1)..Len(sendMailCalls')}

\* the step is one in which a handler calls sendEmailReport
CallsSendEmailReport ==
    \/ phase = "running" /\ phase' = "ending"
    \/ script.pc = "idle" /\ script'.pc = "sending"
    \/ teardown.pc = "waiting" /\ teardown'.pc \in {"sending", "done"}

\* C23: sendEmailReport sends the canonical email whenever
\* detailed-test-report.json exists, with or without test-results.json; the
\* degraded email only when the detailed report is absent and
\* test-results.json exists; and with neither file it returns without a call
\* of sendMail and without an error.
C23_SourceSelection ==
    [][CallsSendEmailReport =>
          /\ detailedFile' # "none" =>
                \E c \in NewCalls: c.kind = "ultimate" /\ NewCalls = {c}
          /\ \A c \in NewCalls:
                c.kind = "basic" => detailedFile' = "none" /\ testResults.written
          /\ detailedFile' = "none" /\ testResults.written =>
                \A c \in NewCalls: c.kind = "basic"
          /\ detailedFile' = "none" /\ ~testResults.written =>
                /\ NewCalls = {}
                /\ "No test results found!" \in console'
                /\ "Global teardown completed successfully" \in console'
                /\ "Error during global teardown" \notin console'
                /\ teardown'.pc = "done"
                /\ uncaught' = uncaught]_vars

\* globalTeardown found neither file and ended normally, and later the script
\* sent the canonical email with both files on disk
C23_Witness ==
    /\ teardown.pc = "done"
    /\ IssuedBy("globalTeardown") = {}
    /\ "No test results found!" \in console
    /\ testResults.written
    /\ detailedFile # "none"
    /\ \E c \in IssuedBy("script"): c.kind = "ultimate"

\* globalTeardown sent the degraded email: the detailed report was absent
\* and test-results.json was there
C23_WitnessDegraded ==
    \E c \in IssuedBy("globalTeardown"): c.kind = "basic" /\ c.settled /\ c.sent

----------------------------------------------------------------------------
(* C24 *)

RECURSIVE NodesOf(_, _, _)
\* the suites of a tree, each with the titles from the root down to it and
\* with its path (the child indices from the root)
NodesOf(suite, titles, path) ==
    {[suite |-> suite, titles |-> Append(titles, suite.title), path |-> path]}
       \cup UNION {NodesOf(suite.suites[k], Append(titles, suite.title),
                           Append(path, k)): k \in 1..Len(suite.suites)}

\* the tests of a node that have at least one result, with their place
TestsWithResultsAt(node) ==
    UNION {{[node |-> node, spec |-> i, test |-> j,
             entry |-> node.suite.specs[i].tests[j]]:
               j \in {j \in 1..Len(node.suite.specs[i].tests):
                         Len(node.suite.specs[i].tests[j].results) > 0}}:
             i \in 1..Len(node.suite.specs)}

TestsWithResults(root) ==
    UNION {TestsWithResultsAt(node): node \in NodesOf(root, <<>>, <<>>)}

RECURSIVE JoinTitles(_)
\* the titles joined by the separator
JoinTitles(titles) ==
    IF Len(titles) = 1 THEN titles[1]
    ELSE titles[1] \o " > " \o JoinTitles(Tail(titles))

RECURSIVE DropEmptyAncestors(_)
\* the titles without the empty titles that come before the first
\* non-empty one, the title of the suite itself being kept
DropEmptyAncestors(titles) ==
    IF Len(titles) > 1 /\ titles[1] = "" THEN DropEmptyAncestors(Tail(titles))
    ELSE titles

\* p is a proper prefix of q
ProperPrefix(p, q) == Len(p) < Len(q) /\ SubSeq(q, 1, Len(p)) = p

\* the place a comes before the place b in document order: the specs of a
\* suite before its child suites, siblings and specs and tests in list order
DocumentOrder(a, b) ==
    LET p == a.node.path
        q == b.node.path
    IN IF p = q
       THEN a.spec < b.spec \/ (a.spec = b.spec /\ a.test < b.test)
       ELSE IF ProperPrefix(p, q) THEN TRUE
       ELSE IF ProperPrefix(q, p) THEN FALSE
       ELSE LET m == CHOOSE m \in 1..Len(p):
                        p[m] # q[m] /\ \A l \in 1..(m - 1): p[l] = q[l]
            IN p[m] < q[m]

\* the place of the test a record stands for
PlaceOf(root, record) ==
    CHOOSE x \in TestsWithResults(root): x.entry.testId = record.testId

\* one record per test with results, in document order, with the duration
\* of the last result
FlattenVisitsTree(root, out) ==
    LET places == TestsWithResults(root)
    IN /\ Len(out) = Cardinality(places)
       /\ {out[k].testId: k \in 1..Len(out)} = {x.entry.testId: x \in places}
       /\ \A k \in 1..Len(out):
             LET x == PlaceOf(root, out[k])
                 last == x.entry.results[Len(x.entry.results)]
             IN /\ out[k].duration = last.duration
                /\ out[k].title = x.node.suite.specs[x.spec].title
       /\ \A k, l \in 1..Len(out):
             k < l => DocumentOrder(PlaceOf(root, out[k]), PlaceOf(root, out[l]))

\* suiteName is the titles of the suites from the root down to the suite
\* of the test, joined by the separator
NamedByAllTitles(root, out) ==
    \A k \in 1..Len(out):
        out[k].suiteName = JoinTitles(PlaceOf(root, out[k]).node.titles)

\* suiteName is the titles from the first suite with a title down to the
\* suite of the test, joined by the separator
NamedByTitlesGiven(root, out) ==
    \A k \in 1..Len(out):
        out[k].suiteName =
            JoinTitles(DropEmptyAncestors(PlaceOf(root, out[k]).node.titles))

\* the status of every record is the status of the last result
StatusOfLastResult(root, out) ==
    \A k \in 1..Len(out):
        LET x == PlaceOf(root, out[k])
        IN out[k].status = x.entry.results[Len(x.entry.results)].status

\* the status of every record is the status of the last result, or flaky
\* when the test has more than one result and the last one is passed
StatusOfLastResultOrFlaky(root, out) ==
    \A k \in 1..Len(out):
        LET x == PlaceOf(root, out[k])
            last == x.entry.results[Len(x.entry.results)]
        IN out[k].status = IF Len(x.entry.results) > 1 /\ last.status = "passed"
                           THEN "flaky" ELSE last.status

\* C24: flattenSuites visits the whole tree: every test with at least one
\* result, at any depth, yields exactly one record, a suite's specs before
\* its child suites in document order; suiteName is the titles of the
\* ancestor suites from the root down joined by the separator; duration and
\* status come from the last result only; the input is not modified.
C24_FlattenLastResultOnly ==
    flattenCall.returned =>
        /\ FlattenVisitsTree(flattenCall.before, flattenCall.result)
        /\ NamedByAllTitles(flattenCall.before, flattenCall.result)
        /\ StatusOfLastResult(flattenCall.before, flattenCall.result)
        /\ flattenCall.suite = flattenCall.before

\* C24 as amended: the same, with the status of a test that passed on a
\* retry being flaky, and with suiteName starting at the first suite that
\* has a title
C24_FlattenVisitsTree ==
    flattenCall.returned =>
        /\ FlattenVisitsTree(flattenCall.before, flattenCall.result)
        /\ NamedByTitlesGiven(flattenCall.before, flattenCall.result)
        /\ StatusOfLastResultOrFlaky(flattenCall.before, flattenCall.result)
        /\ flattenCall.suite = flattenCall.before

\* a tree three suites deep with titles was flattened, with records of the
\* root and of the deepest suite, one of them flaky
C24_Witness ==
    /\ flattenCall.returned
    /\ flattenCall.before.title # ""
    /\ \E x, y \in TestsWithResults(flattenCall.suite):
          /\ Len(x.node.path) = 0
          /\ Len(y.node.path) = 2
    /\ \E k \in 1..Len(flattenCall.result):
          flattenCall.result[k].status = "flaky"

----------------------------------------------------------------------------
(* C25 *)

RECURSIVE StepNodes(_, _)
\* the steps of a list of step trees at any depth, each with its path (the
\* indices from the list down to it)
StepNodes(steps, path) ==
    UNION {{[step |-> steps[k], path |-> Append(path, k)]}
              \cup StepNodes(steps[k].steps, Append(path, k)):
           k \in 1..Len(steps)}

\* the path p comes before the path q in pre-order: a step before the steps
\* nested in it, siblings in list order
PreOrder(p, q) ==
    IF ProperPrefix(p, q) THEN TRUE
    ELSE IF ProperPrefix(q, p) \/ p = q THEN FALSE
    ELSE LET m == CHOOSE m \in 1..Len(p):
                     p[m] # q[m] /\ \A l \in 1..(m - 1): p[l] = q[l]
         IN p[m] < q[m]

\* the steps an entry can stand for: those whose title, after two spaces
\* for each level below the top, is the title of the entry
StepsOfEntry(nodes, entry) ==
    {x \in nodes: entry.title = Repeat("  ", Len(x.path) - 1) \o x.step.title}

\* C25: extractSteps flattens the step tree in pre-order: one entry for each
\* step at any depth, a step before the steps nested in it and siblings in
\* their order, the title of an entry being the title of the step after two
\* spaces for each nesting level (none at the top level).
C25_ExtractStepsPreOrder ==
    stepsCall.returned =>
        LET nodes == StepNodes(stepsCall.steps, <<>>)
            out == stepsCall.result
        IN /\ Len(out) = Cardinality(nodes)
           /\ \A k \in 1..Len(out): Cardinality(StepsOfEntry(nodes, out[k])) = 1
           /\ \A x \in nodes: \E k \in 1..Len(out): x \in StepsOfEntry(nodes, out[k])
           /\ \A k, l \in 1..Len(out):
                 k < l =>
                    \A x \in StepsOfEntry(nodes, out[k]),
                       y \in StepsOfEntry(nodes, out[l]): PreOrder(x.path, y.path)

\* steps nested three deep, with two steps at the top level, were extracted
C25_Witness ==
    /\ stepsCall.returned
    /\ Len(stepsCall.steps) = 2
    /\ \E x \in StepNodes(stepsCall.steps, <<>>): Len(x.path) = 3
    /\ Len(stepsCall.result) = 4

----------------------------------------------------------------------------
(* C26 *)

\* every counter of a SuiteResult, the duration included
AllCountersOf(s) ==
    [passed |-> s.passed, failed |-> s.failed, skipped |-> s.skipped,
     flaky |-> s.flaky, interrupted |-> s.interrupted, total |-> s.total,
     duration |-> s.duration]

CounterNames == {"passed", "failed", "skipped", "flaky", "interrupted",
                 "total", "duration"}

\* the counters of the i-th SuiteResult of a list, all zero when the list
\* has no i-th SuiteResult yet
CountersAt(ss, i) ==
    IF i \in 1..Len(ss) THEN AllCountersOf(ss[i])
    ELSE [c \in CounterNames |-> 0]

\* the test whose completion the step notifies
NotifiedTests == {t \in Tests: attempts'[t] # attempts[t]}

\* C26: over every call of onTestEnd no counter of a SuiteResult decreases,
\* no SuiteResult and no record is removed, and the counters of exactly one
\* SuiteResult change: the one of the file of the test.
C26_CountersMonotonic ==
    [][NotifiedTests # {} =>
          /\ Len(suites') >= Len(suites)
          /\ \A i \in 1..Len(suites):
                /\ suites'[i].file = suites[i].file
                /\ Len(suites'[i].tests) >= Len(suites[i].tests)
                /\ SubSeq(suites'[i].tests, 1, Len(suites[i].tests)) = suites[i].tests
                /\ \A c \in CounterNames:
                      AllCountersOf(suites'[i])[c] >= AllCountersOf(suites[i])[c]
          /\ \E i \in 1..Len(suites'):
                /\ CountersAt(suites', i) # CountersAt(suites, i)
                /\ \A t \in NotifiedTests: suites'[i].file = LocationFile(t)
                /\ \A j \in 1..Len(suites'):
                      j # i => /\ j \in 1..Len(suites)
                               /\ suites'[j] = suites[j]]_vars

\* three completions were notified, for tests of two files
C26_Witness ==
    /\ Len(suites) = 2
    /\ suites[1].total = 2
    /\ suites[2].total = 1
    /\ suites[1].failed = 1

----------------------------------------------------------------------------
(* C27 *)

\* globalSetup has run in this run
SetupHasRun == "Global setup completed" \in console

\* C27: once globalSetup has run, every email that is sent is rendered from
\* a results file written during the run, never from a file an earlier run
\* left; globalSetup deletes an existing detailed-test-report.json before
\* the first test starts.
C27_ReportsAreFresh ==
    SetupHasRun =>
        /\ \A c \in Range(sendMailCalls): c.source # "stale"
        /\ detailedFile # "stale"

\* what holds: after globalSetup the stale detailed report is gone and no
\* canonical email is rendered from one; an email rendered from a stale file
\* is the degraded one globalTeardown sends from test-results.json
C27_OnlyDegradedIsStale ==
    SetupHasRun =>
        /\ detailedFile # "stale"
        /\ \A c \in Range(sendMailCalls):
              c.source = "stale" => c.kind = "basic" /\ c.by = "globalTeardown"

\* globalSetup deleted a stale detailed report, and globalTeardown has sent
\* an email rendered from the test-results.json of an earlier run
C27_StaleEmailSent ==
    /\ SetupHasRun
    /\ "Deleted old detailed-test-report.json" \in console
    /\ \E c \in IssuedBy("globalTeardown"):
          c.source = "stale" /\ c.settled /\ c.sent

----------------------------------------------------------------------------
(* C28 *)

\* the rows of the rendered matrix that show the given overall status
MatrixRowsWith(status) ==
    {i \in 1..Len(emailOutput.matrix):
        /\ "overallStatus" \in DOMAIN emailOutput.matrix[i]
        /\ emailOutput.matrix[i].overallStatus = status}

\* the matrix has as many rows as Total Test Cases says, as many rows of
\* each status as the figure of that status says, and the three figures sum
\* to the total
FiguresMatchMatrix ==
    /\ Len(emailOutput.matrix) = emailOutput.counts.totalTestCases
    /\ Cardinality(MatrixRowsWith("passed")) = emailOutput.counts.passedTestCases
    /\ Cardinality(MatrixRowsWith("failed")) = emailOutput.counts.failedTestCases
    /\ Cardinality(MatrixRowsWith("skipped")) = emailOutput.counts.skippedTestCases
    /\ emailOutput.counts.passedTestCases + emailOutput.counts.failedTestCases
          + emailOutput.counts.skippedTestCases = emailOutput.counts.totalTestCases

\* the grouping of the matrix and the grouping of the summary have the same
\* test-case ids, in the same order, with the same member records and the
\* same overall status
GroupingsAgree ==
    /\ Len(emailOutput.rows) = Len(emailOutput.ultimate)
    /\ \A i \in 1..Len(emailOutput.rows):
          /\ emailOutput.rows[i].testCaseId
                = escapeHtml(emailOutput.ultimate[i].testCaseId)
          /\ emailOutput.rows[i].tests = emailOutput.ultimate[i].tests
          /\ emailOutput.rows[i].overallStatus
                = emailOutput.ultimate[i].overallStatus

\* C28 as stated: for every report the two grouping passes of the canonical
\* email agree, so the number of matrix rows equals Total Test Cases, the
\* numbers of rows with status passed, failed and skipped equal the Passed,
\* Failed and Skipped figures, and these three sum to the total
C28_MatrixRowsEqualFigures ==
    emailOutput.rendered => GroupingsAgree /\ FiguresMatchMatrix

\* C28 amended: the two passes agree for every report; for a report with at
\* least one record the rows of the matrix match the four figures, and for
\* a report without records the matrix is the one row "No tests found"
\* while the four figures are 0
C28_GroupingPassesAgree ==
    emailOutput.rendered =>
        /\ GroupingsAgree
        /\ IF PairsOf(emailInput) # <<>>
           THEN FiguresMatchMatrix
           ELSE /\ emailOutput.matrix = << NoTestsFound >>
                /\ emailOutput.counts
                      = [totalTestCases |-> 0, passedTestCases |-> 0,
                         failedTestCases |-> 0, skippedTestCases |-> 0]

\* a rendered report of three records in two test cases, one failed by its
\* second record and one skipped
C28_Witness ==
    /\ emailOutput.rendered
    /\ Len(emailOutput.matrix) = 2
    /\ emailOutput.counts.totalTestCases = 2
    /\ emailOutput.counts.failedTestCases = 1
    /\ emailOutput.counts.skippedTestCases = 1
    /\ \E i \in 1..2: Len(emailOutput.ultimate[i].tests) = 2

\* the rendered report of a run without tests
C28_WitnessNoTests ==
    /\ emailOutput.rendered
    /\ emailInput = <<>>

----------------------------------------------------------------------------
(* C29 *)

\* the canonical classification of the test of a spec of the document: the
\* status of the record flattenSuites builds for it, none without a result
CanonicalStatuses(spec) ==
    {FlattenRecord(spec, spec.tests[i], "", "").status:
        i \in {k \in 1..Len(spec.tests): Len(spec.tests[k].results) > 0}}

\* C29: for the same run a spec is counted as failed by
\* generateBasicEmailHTML only if the canonical classification of its test
\* is failed (its last attempt failed or timed out); a test that failed and
\* then passed on retry, and a skipped test, are not counted as failed
C29_DegradedAgreesOnFailure ==
    (testResults.written /\ HasSuites(testResults)) =>
        LET basic == generateBasicEmailHTML(testResults)
        IN \A i \in 1..Len(basic):
              \A j \in 1..Len(basic[i].scenarios):
                 basic[i].scenarios[j].status = "failed" =>
                    CanonicalStatuses(testResults.suites[i].specs[j])
                       \cap {"failed", "timedOut"} # {}

\* the degraded report counts as failed a spec whose test failed and then
\* passed on retry, which the canonical report classifies as flaky
C29_RetriedPassCountedFailed ==
    /\ testResults.written /\ HasSuites(testResults)
    /\ \E i \in 1..Len(testResults.suites):
          \E j \in 1..Len(testResults.suites[i].specs):
             /\ generateBasicEmailHTML(testResults)[i].scenarios[j].status
                   = "failed"
             /\ CanonicalStatuses(testResults.suites[i].specs[j]) = {"flaky"}

\* the degraded report counts as failed a spec whose test was skipped
C29_SkippedCountedFailed ==
    /\ testResults.written /\ HasSuites(testResults)
    /\ \E i \in 1..Len(testResults.suites):
          \E j \in 1..Len(testResults.suites[i].specs):
             /\ generateBasicEmailHTML(testResults)[i].scenarios[j].status
                   = "failed"
             /\ CanonicalStatuses(testResults.suites[i].specs[j]) = {"skipped"}

\* where the two reports agree: a spec the degraded report counts as passed
\* has no test that the canonical report classifies as failed or timed out
C29_PassedNeverCanonicalFailed ==
    (testResults.written /\ HasSuites(testResults)) =>
        LET basic == generateBasicEmailHTML(testResults)
        IN \A i \in 1..Len(basic):
              \A j \in 1..Len(basic[i].scenarios):
                 basic[i].scenarios[j].status = "passed" =>
                    CanonicalStatuses(testResults.suites[i].specs[j])
                       \subseteq {"passed"}

----------------------------------------------------------------------------
(* C30 *)

\* the invocations of sendEmail by the reporter's onEnd and by
\* globalTeardown: each invocation makes one call of sendMail
EmailsOfTheRun ==
    {i \in 1..Len(sendMailCalls):
        sendMailCalls[i].by \in {"onEnd", "globalTeardown"}}

\* C30: at most one report email is transmitted per test run; over one run
\* in which both onEnd of the custom reporter and globalTeardown execute,
\* sendEmail is invoked at most once in total
C30_AtMostOneEmail == Cardinality(EmailsOfTheRun) <= 1

\* onEnd and globalTeardown have both finished, and each of them has handed
\* an email to the SMTP server, which accepted both
C30_TwoEmailsDelivered ==
    /\ phase = "ended"
    /\ teardown.pc = "done"
    /\ \A by \in {"onEnd", "globalTeardown"}:
          \E i \in EmailsOfTheRun:
             /\ sendMailCalls[i].by = by
             /\ sendMailCalls[i].settled
             /\ sendMailCalls[i].sent

\* the bound that does hold: each of the two handlers invokes sendEmail at
\* most once in a run
C30_AtMostOneEmailPerHandler ==
    \A by \in {"onEnd", "globalTeardown"}:
       Cardinality({i \in EmailsOfTheRun: sendMailCalls[i].by = by}) <= 1

============================================================================
